---- MODULE Spec2Model ----
(***************************************************************************)
(* Model of the CombatCoaching engine task (src-tauri/src/engine.rs), the  *)
(* combat state machine (state.rs) and the six coaching rules (rules/).    *)
(*                                                                         *)
(* Representation:                                                         *)
(*   Option<T>       a sequence of length 0 (None) or 1 (Some(x))          *)
(*   HashMap<K,V>    a function whose DOMAIN is the set of keys present    *)
(*   GUID / name     the sequence of its '-'-separated tokens              *)
(*   advice key      <<prefix>> or <<prefix, spell_id>>                    *)
(*   u64 arithmetic  naturals; saturating_sub is SatSub                    *)
(***************************************************************************)
EXTENDS Integers, Sequences, FiniteSets, TLC

VARIABLES
    combat,         \* CombatState owned by the engine (state.rs)
    eng,            \* the remaining fields of EngineState (engine.rs)
    db_pull_rows,   \* number of rows in the store's pulls table (db.rs)
    ev,             \* Option: the event handled by the last step
    sent,           \* advice delivered on advice_tx by the last step
    suppressed,     \* candidates that failed can_fire in the last step
    debrief_out,    \* Option: debrief handed to debrief_tx by the last step
    snap_out,       \* Option: snapshot handed to snap_tx by the last step
    db_out,         \* store commands issued by the last step
    nSteps,         \* number of messages (events, identity and config updates) handled
    pull_firings,   \* history: [key, severity, ts] of advice delivered in the open/last pull
    stale_keys,     \* history: dedup keys whose entry predates the opening of the pull
    pull_casts,     \* history: coached casts of the open/last pull
    pull_hits,      \* history: spell -> SpellDamage on the coached player in the open/last pull
    debrief_log,    \* history: the pull_number of every debrief handed to debrief_tx
    feed,           \* what the engine's inbound queues can carry: [events, identities, configs]
    db_tracked,     \* whether the store writer's command channel is followed
    db_queue,       \* commands sent to the store writer and not yet executed (db.rs)
    db_advice_rows, \* rows of the store's advice_events table
    db_log,         \* history: every command sent to the store writer, in order
    delivered,      \* history: advice delivered while a pull was open
    db_pending,     \* commands the engine is blocked sending: the writer's channel is full
    dir_ok,         \* whether the Logs directory exists and can be watched
    files,          \* the Logs directory: file name -> [exists, content]
    mtimes,         \* the existing files, least recently modified first
    fs_q,           \* the watcher's channel: notify events not yet received (fs_rx)
    tailer,         \* TailerState and the position of tailer::run in its code
    line_q,         \* lines sent on the tailer's outbound queue, with their origin
    conn,           \* connection statuses emitted: [last, now]
    tail_hist,      \* history: rewrites, switches and the last read of the tailer
    chan,           \* the pipeline's queues: name -> [open, q]
    task,           \* the pipeline's tasks: name -> "running" or "done"
    lines_sent,     \* history: the lines sent on the line queue, in order
    processed,      \* history: the events the engine has processed, in order
    snap_cell,      \* Option: the managed Mutex<StateSnapshot>
    ring,           \* the managed Mutex<VecDeque<AdviceEvent>>
    ring_hist,      \* history: advice received by the fan-out since the last drain
    cfg_path_set,   \* whether wow_log_path in the config file on disk is non-empty
    ready,          \* the managed AtomicBool: the pipeline-running gate
    bundle,         \* whether the managed Mutex<Option<PipelineBundle>> holds Some
    spawns,         \* number of times the pipeline's tasks were spawned
    call,           \* caller -> [pc, saves]: where its try_start_pipeline call stands
    start_hist      \* history: [skipped, lost, bundle_missing] of the calls so far

storeVars == <<db_queue, db_advice_rows, db_log, delivered, db_pending>>

engineVars == <<combat, eng, db_pull_rows, ev, sent, suppressed, debrief_out, snap_out,
                db_out, nSteps, pull_firings, stale_keys, pull_casts, pull_hits,
                debrief_log, feed, db_tracked, storeVars>>

tailerVars == <<dir_ok, files, mtimes, fs_q, tailer, line_q, conn, tail_hist>>

flowVars == <<lines_sent, processed, snap_cell, ring, ring_hist>>

startVars == <<cfg_path_set, ready, bundle, spawns, call, start_hist>>

pipeVars == <<chan, task, flowVars, startVars>>

vars == <<engineVars, tailerVars, pipeVars>>

----------------------------------------------------------------------------
(* Bounds *)

\* messages the engine receives in one run
MaxSteps == 4

\* commands the store writer's channel holds (sync_channel(512) in db.rs)
MaxDbQueue == 2

Min(a, b) == IF a < b THEN a ELSE b

----------------------------------------------------------------------------
(* Generic helpers *)

None == <<>>
Some(x) == <<x>>
IsSome(o) == Len(o) = 1
Get(o) == o[1]

EmptyMap == << >>
Has(m, k) == k \in DOMAIN m
Put(m, k, v) == [x \in (DOMAIN m) \cup {k} |-> IF x = k THEN v ELSE m[x]]

SatSub(a, b) == IF a >= b THEN a - b ELSE 0

RECURSIVE SumSeq(_)
SumSeq(s) == IF s = <<>> THEN 0 ELSE Head(s) + SumSeq(Tail(s))

RECURSIVE SumMap(_)
SumMap(m) ==
    IF DOMAIN m = {} THEN 0
    ELSE LET k == CHOOSE x \in DOMAIN m : TRUE
         IN  m[k] + SumMap([x \in (DOMAIN m) \ {k} |-> m[x]])

----------------------------------------------------------------------------
(* Strings: GUIDs and names as '-'-separated token sequences *)

\* str::to_ascii_lowercase on one token
ToAsciiLowercase(s) ==
    CASE s = "Alice" -> "alice"
      [] s = "ALICE" -> "alice"
      [] s = "Bob"   -> "bob"
      [] s = "Mob"   -> "mob"
      [] s = "PALADIN"     -> "paladin"
      [] s = "Retribution" -> "retribution"
      [] OTHER       -> s

EqIgnoreAsciiCase(a, b) == ToAsciiLowercase(a) = ToAsciiLowercase(b)

\* guid.starts_with("Player-"): first token is Player and a '-' follows it
StartsWithPlayerDash(g) == Len(g) >= 2 /\ g[1] = "Player"
\* guid.starts_with("Creature") / ("Vehicle")
StartsWithCreature(g) == Len(g) >= 1 /\ g[1] = "Creature"
StartsWithVehicle(g) == Len(g) >= 1 /\ g[1] = "Vehicle"

\* full_name.split('-').next(): the text before the first '-'
extract_char_name(full_name) == IF full_name = <<>> THEN "" ELSE full_name[1]

----------------------------------------------------------------------------
(* Log events (parser.rs LogEvent): one record shape for all variants;      *)
(* fields a variant does not carry hold NoGuid / 0 / FALSE.                  *)

NoGuid == <<>>

PlayerA   == <<"Player", "1", "A">>
PlayerB   == <<"Player", "2", "B">>
CreatureM == <<"Creature", "0", "M">>
CreatureA == <<"Creature", "0", "A">>   \* a creature that bears the name Alice

\* source_name / dest_name the game logs for each unit (Name-Realm for players)
NameOf(g) ==
    CASE g = PlayerA   -> <<"Alice", "Realm">>
      [] g = PlayerB   -> <<"Bob", "Realm">>
      [] g = CreatureM -> <<"Mob">>
      [] g = CreatureA -> <<"Alice">>
      [] OTHER         -> <<>>

\* spell ids of the log events fed to the engine
ScenarioSpells == [major_cd |-> 100, kick |-> 555, fire |-> 999]
SpellMajorCd == ScenarioSpells.major_cd
SpellKick    == ScenarioSpells.kick
SpellFire    == ScenarioSpells.fire
SpellAvenge  == 31884   \* Avenging Wrath (PALADIN/Retribution major cd)
SpellDivine  == 498     \* Divine Protection (PALADIN/Retribution active mitigation)

Event(kind, ts, src, dst, spell, amount, success) ==
    [kind |-> kind, timestamp_ms |-> ts, source_guid |-> src,
     source_name |-> NameOf(src), dest_guid |-> dst, spell_id |-> spell,
     amount |-> amount, success |-> success]

SpellCastSuccess(ts, src, spell) == Event("SpellCastSuccess", ts, src, NoGuid, spell, 0, FALSE)
SpellDamage(ts, dst, spell, amt) == Event("SpellDamage", ts, CreatureM, dst, spell, amt, FALSE)
SwingDamage(ts, dst, amt)        == Event("SwingDamage", ts, CreatureM, dst, 0, amt, FALSE)
UnitDied(ts, dst)                == Event("UnitDied", ts, NoGuid, dst, 0, 0, FALSE)
SpellInterrupted(ts, src, spell) == Event("SpellInterrupted", ts, src, CreatureM, spell, 0, FALSE)
EncounterStart(ts)               == Event("EncounterStart", ts, NoGuid, NoGuid, 0, 0, FALSE)
EncounterEnd(ts, success)        == Event("EncounterEnd", ts, NoGuid, NoGuid, 0, 0, success)
SpellHeal(ts, src)               == Event("SpellHeal", ts, src, src, 0, 0, FALSE)

EncounterName == "Zone"

\* LogEvent::timestamp_ms
timestamp_ms(event) == event.timestamp_ms

----------------------------------------------------------------------------
(* state.rs *)

Pull(n, start) == [pull_number |-> n, start_ms |-> start, end_ms |-> None, outcome |-> None]

EVENT_WINDOW_MS == 30000

\* EventWindow::push
EventWindow_push(w, event, now_ms) ==
    LET pushed == Append(w.events, [timestamp_ms |-> now_ms, event |-> event])
        cutoff == SatSub(now_ms, w.window_ms)
        Keep(e) == e.timestamp_ms >= cutoff
    IN  [w EXCEPT !.events = SelectSeq(pushed, Keep)]

\* InterruptTracker
record_interrupt(t, id) == [t EXCEPT !.interruptible_spells = @ \cup {id}]
is_interruptible_any_spell(t, id) == TRUE
is_interruptible(t, id) == id \in t.interruptible_spells
\* reset_per_pull that clears the learned set like the other per-pull trackers
reset_per_pull_forgets(t) == [t EXCEPT !.interruptible_spells = {}]
reset_per_pull(t) == t

\* DamageTakenTracker
DamageTaken_record(t, ts, amount) == [t EXCEPT !.events = Append(@, <<ts, amount>>)]
recent_damage(t, now_ms, window_ms) ==
    LET cutoff == SatSub(now_ms, window_ms)
        InWindow(p) == p[1] >= cutoff
        recent == SelectSeq(t.events, InWindow)
    IN  SumSeq([i \in 1..Len(recent) |-> recent[i][2]])
DamageTaken_reset_keeps_events(t) == t
DamageTaken_reset(t) == [t EXCEPT !.events = <<>>]

\* AvoidableTracker
hit_count(t, id) == IF Has(t.hit_counts, id) THEN t.hit_counts[id] ELSE 0
record_hit(t, id, ts) ==
    [hit_counts     |-> Put(t.hit_counts, id, hit_count(t, id) + 1),
     hit_timestamps |-> Put(t.hit_timestamps, id,
                            Append(IF Has(t.hit_timestamps, id)
                                   THEN t.hit_timestamps[id] ELSE <<>>, ts))]
total_hits(t) == SumMap(t.hit_counts)
Avoidable_reset(t) == [hit_counts |-> EmptyMap, hit_timestamps |-> EmptyMap]

\* CooldownTracker
Cooldown_record_cast(t, id, ts) == [t EXCEPT !.last_used = Put(@, id, ts)]
last_used_ms(t, id) == IF Has(t.last_used, id) THEN Some(t.last_used[id]) ELSE None
Cooldown_reset(t) == [t EXCEPT !.last_used = EmptyMap]

\* GcdTracker
Gcd_reset_keeps_last(g) == [g EXCEPT !.current_gap_ms = 0]

Gcd_record_cast(g, ts) ==
    [last_cast_ms   |-> Some(ts),
     current_gap_ms |-> IF IsSome(g.last_cast_ms)
                        THEN SatSub(ts, Get(g.last_cast_ms))
                        ELSE g.current_gap_ms]
Gcd_reset(g) == [last_cast_ms |-> None, current_gap_ms |-> 0]

\* CombatState::new
CombatState_new ==
    [current_pull    |-> None,
     pull_history    |-> <<>>,
     event_window    |-> [events |-> <<>>, window_ms |-> EVENT_WINDOW_MS],
     avoidable       |-> [hit_counts |-> EmptyMap, hit_timestamps |-> EmptyMap],
     cooldowns       |-> [last_used |-> EmptyMap],
     gcd             |-> [last_cast_ms |-> None, current_gap_ms |-> 0],
     in_combat       |-> FALSE,
     player_guid     |-> None,
     interrupt_count |-> 0,
     encounter_name  |-> None,
     interrupts      |-> [interruptible_spells |-> {}],
     damage_taken    |-> [events |-> <<>>],
     last_player_cast_ms |-> None]

\* start_pull that numbers the new pull as the last closed one
start_pull_repeats_number(state, ts) ==
    [state EXCEPT
        !.current_pull    = Some(Pull(Len(state.pull_history), ts)),
        !.avoidable       = Avoidable_reset(@),
        !.cooldowns       = Cooldown_reset(@),
        !.gcd             = Gcd_reset(@),
        !.interrupt_count = 0,
        !.damage_taken    = DamageTaken_reset(@),
        !.interrupts      = reset_per_pull(@),
        !.last_player_cast_ms = None,
        !.in_combat       = TRUE]

\* CombatState::start_pull
start_pull(state, ts) ==
    [state EXCEPT
        !.current_pull    = Some(Pull(Len(state.pull_history) + 1, ts)),
        !.avoidable       = Avoidable_reset(@),
        !.cooldowns       = Cooldown_reset(@),
        !.gcd             = Gcd_reset(@),
        !.interrupt_count = 0,
        !.damage_taken    = DamageTaken_reset(@),
        !.interrupts      = reset_per_pull(@),
        !.last_player_cast_ms = None,
        !.in_combat       = TRUE]

\* end_pull that forgets to leave combat
end_pull_stays_in_combat(state, ts, outcome) ==
    [state EXCEPT !.current_pull = None,
                  !.pull_history = IF IsSome(state.current_pull)
                                   THEN Append(@, [Get(state.current_pull) EXCEPT
                                                     !.end_ms = Some(ts),
                                                     !.outcome = Some(outcome)])
                                   ELSE @]

\* CombatState::end_pull
end_pull(state, ts, outcome) ==
    LET closed == IF IsSome(state.current_pull)
                  THEN Append(state.pull_history,
                              [Get(state.current_pull) EXCEPT
                                  !.end_ms = Some(ts), !.outcome = Some(outcome)])
                  ELSE state.pull_history
    IN  [state EXCEPT !.current_pull = None,
                      !.pull_history = closed,
                      !.in_combat    = FALSE]

\* CombatState::pull_elapsed_ms
pull_elapsed_ms(state, now_ms) ==
    IF IsSome(state.current_pull)
    THEN SatSub(now_ms, Get(state.current_pull).start_ms)
    ELSE 0

----------------------------------------------------------------------------
(* engine.rs: state machine *)

\* Some(guid.as_str()) == state.player_guid.as_deref()
IsPlayer(guid, player_guid) == Some(guid) = player_guid

\* is_coached_event
is_coached_event(event, player_guid) ==
    CASE event.kind = "SpellCastSuccess" -> IsPlayer(event.source_guid, player_guid)
      [] event.kind = "SpellDamage"      -> IsPlayer(event.dest_guid, player_guid)
      [] event.kind = "SpellHeal"        -> IsPlayer(event.source_guid, player_guid)
      [] event.kind = "SwingDamage"      -> IsPlayer(event.dest_guid, player_guid)
      [] event.kind = "SpellInterrupted" -> IsPlayer(event.source_guid, player_guid)
      [] event.kind = "UnitDied"         -> TRUE
      [] event.kind = "EncounterStart"   -> TRUE
      [] event.kind = "EncounterEnd"     -> TRUE
      [] OTHER                           -> IsPlayer(event.source_guid, player_guid)

\* update_state

UnitDiedEndsPull_in_any_pull(state) == state.in_combat

\* if state.in_combat && state.encounter_name.is_none()
UnitDiedEndsPull(state) == state.in_combat /\ ~IsSome(state.encounter_name)

update_state(state, event, now_ms) ==
    CASE event.kind = "SpellCastSuccess" ->
            LET s1 == IF ~state.in_combat THEN start_pull(state, now_ms) ELSE state
            IN  IF IsPlayer(event.source_guid, s1.player_guid)
                THEN [s1 EXCEPT !.gcd = Gcd_record_cast(@, now_ms),
                                !.cooldowns = Cooldown_record_cast(@, event.spell_id, now_ms)]
                ELSE s1
      [] event.kind = "SpellDamage" ->
            LET s1 == IF IsPlayer(event.dest_guid, state.player_guid)
                      THEN [state EXCEPT
                              !.avoidable = record_hit(@, event.spell_id, now_ms),
                              !.damage_taken = DamageTaken_record(@, now_ms, event.amount)]
                      ELSE state
            IN  [s1 EXCEPT !.event_window = EventWindow_push(@, event, now_ms)]
      [] event.kind = "SwingDamage" ->
            LET s1 == IF IsPlayer(event.dest_guid, state.player_guid)
                      THEN [state EXCEPT
                              !.damage_taken = DamageTaken_record(@, now_ms, event.amount)]
                      ELSE state
            IN  [s1 EXCEPT !.event_window = EventWindow_push(@, event, now_ms)]
      [] event.kind = "UnitDied" ->
            IF UnitDiedEndsPull(state)
            THEN end_pull(state, now_ms,
                          IF StartsWithCreature(event.dest_guid) THEN "Kill" ELSE "Wipe")
            ELSE state
      [] event.kind = "SpellInterrupted" ->
            LET s1 == IF IsPlayer(event.source_guid, state.player_guid)
                      THEN [state EXCEPT
                              !.interrupt_count = @ + 1,
                              !.interrupts = record_interrupt(@, event.spell_id)]
                      ELSE state
            IN  [s1 EXCEPT !.event_window = EventWindow_push(@, event, now_ms)]
      [] event.kind = "EncounterStart" ->
            LET s1 == [state EXCEPT !.encounter_name = Some(EncounterName)]
            IN  IF ~s1.in_combat THEN start_pull(s1, now_ms) ELSE s1
      [] event.kind = "EncounterEnd" ->
            LET s1 == IF state.in_combat
                      THEN end_pull(state, now_ms,
                                    IF event.success THEN "Kill" ELSE "Wipe")
                      ELSE state
            IN  [s1 EXCEPT !.encounter_name = None]
      [] OTHER ->
            [state EXCEPT !.event_window = EventWindow_push(@, event, now_ms)]

----------------------------------------------------------------------------
(* rules/*.rs.  ctx = [state, intensity, now_ms]; each rule returns the     *)
(* sequence of its candidate advice.                                         *)

\* rules::advice
advice(key, severity, kv, now_ms) ==
    [key |-> key, severity |-> severity, kv |-> kv, timestamp_ms |-> now_ms]

AVOIDABLE_MIN_HITS == 2

\* avoidable_repeat::evaluate
avoidable_repeat_evaluate(event, ctx) ==
    IF event.kind # "SpellDamage" THEN <<>>
    ELSE IF ~IsPlayer(event.dest_guid, ctx.state.player_guid) THEN <<>>
    ELSE IF hit_count(ctx.state.avoidable, event.spell_id) < AVOIDABLE_MIN_HITS THEN <<>>
    ELSE << advice(<<"avoidable_repeat">>, "Bad",
                   [hits |-> hit_count(ctx.state.avoidable, event.spell_id),
                    spell_id |-> event.spell_id],
                   ctx.now_ms) >>

GCD_THRESHOLD_MS == 2500
GCD_MIN_INTENSITY == 3

\* gcd_gap::evaluate without its intensity gate
gcd_gap_evaluate_ungated(event, ctx) ==
    IF event.kind # "SpellCastSuccess" THEN <<>>
    ELSE IF ~IsPlayer(event.source_guid, ctx.state.player_guid) THEN <<>>
    ELSE IF ctx.state.gcd.current_gap_ms < GCD_THRESHOLD_MS THEN <<>>
    ELSE << advice(<<"gcd_gap">>, "Warn",
                   [gap_ms |-> ctx.state.gcd.current_gap_ms,
                    phase  |-> (pull_elapsed_ms(ctx.state, ctx.now_ms) \div 60000) + 1],
                   ctx.now_ms) >>

\* gcd_gap::evaluate
gcd_gap_evaluate(event, ctx) ==
    IF event.kind # "SpellCastSuccess" THEN <<>>
    ELSE IF ~IsPlayer(event.source_guid, ctx.state.player_guid) THEN <<>>
    ELSE IF ctx.intensity < GCD_MIN_INTENSITY THEN <<>>
    ELSE IF ctx.state.gcd.current_gap_ms < GCD_THRESHOLD_MS THEN <<>>
    ELSE << advice(<<"gcd_gap">>, "Warn",
                   [gap_ms |-> ctx.state.gcd.current_gap_ms,
                    phase  |-> (pull_elapsed_ms(ctx.state, ctx.now_ms) \div 60000) + 1],
                   ctx.now_ms) >>

DRIFT_THRESHOLD_MS == 8000

\* cooldown_drift::evaluate (is_first_use)
is_first_use(state, spell_id, now_ms) ==
    LET pull_start_ms == IF IsSome(state.current_pull)
                         THEN Get(state.current_pull).start_ms ELSE 0
        t == last_used_ms(state.cooldowns, spell_id)
    IN  IF IsSome(t) THEN Get(t) >= pull_start_ms /\ Get(t) = now_ms ELSE FALSE

\* cooldown_drift::evaluate
cooldown_drift_evaluate(event, ctx, major_cd_ids) ==
    IF event.kind # "SpellCastSuccess" THEN <<>>
    ELSE IF ~IsPlayer(event.source_guid, ctx.state.player_guid) THEN <<>>
    ELSE IF event.spell_id \notin major_cd_ids THEN <<>>
    ELSE IF pull_elapsed_ms(ctx.state, ctx.now_ms) < DRIFT_THRESHOLD_MS THEN <<>>
    ELSE IF ~is_first_use(ctx.state, event.spell_id, ctx.now_ms) THEN <<>>
    ELSE << advice(<<"cooldown_drift">>, "Warn",
                   [drift_ms |-> pull_elapsed_ms(ctx.state, ctx.now_ms),
                    spell_id |-> event.spell_id],
                   ctx.now_ms) >>

INTERRUPT_SUCCESS_MIN_INTENSITY == 2

\* interrupt_success::evaluate
interrupt_success_evaluate(event, ctx) ==
    IF event.kind # "SpellInterrupted" THEN <<>>
    ELSE IF ~IsPlayer(event.source_guid, ctx.state.player_guid) THEN <<>>
    ELSE IF ctx.intensity < INTERRUPT_SUCCESS_MIN_INTENSITY THEN <<>>
    ELSE << advice(<<"interrupt_success", event.spell_id>>, "Good",
                   [id |-> event.spell_id], ctx.now_ms) >>

INTERRUPT_MISS_MIN_INTENSITY == 3

\* interrupt_miss::evaluate
interrupt_miss_evaluate(event, ctx) ==
    IF event.kind # "SpellCastSuccess" THEN <<>>
    ELSE IF IsPlayer(event.source_guid, ctx.state.player_guid) THEN <<>>
    ELSE IF ~StartsWithCreature(event.source_guid) /\ ~StartsWithVehicle(event.source_guid)
         THEN <<>>
    ELSE IF ~is_interruptible(ctx.state.interrupts, event.spell_id) THEN <<>>
    ELSE IF ~ctx.state.in_combat THEN <<>>
    ELSE IF ctx.intensity < INTERRUPT_MISS_MIN_INTENSITY THEN <<>>
    ELSE << advice(<<"interrupt_miss", event.spell_id>>, "Bad",
                   [spell_id |-> event.spell_id], ctx.now_ms) >>

DAMAGE_THRESHOLD == 20000
DAMAGE_WINDOW_MS == 5000
DEFENSIVE_MIN_INTENSITY == 2

\* defensive_timing::evaluate
defensive_timing_evaluate(event, ctx, am_ids) ==
    IF am_ids = {} THEN <<>>
    ELSE IF event.kind # "SpellCastSuccess" THEN <<>>
    ELSE IF ~IsPlayer(event.source_guid, ctx.state.player_guid) THEN <<>>
    ELSE IF event.spell_id \notin am_ids THEN <<>>
    ELSE IF ctx.intensity < DEFENSIVE_MIN_INTENSITY THEN <<>>
    ELSE IF recent_damage(ctx.state.damage_taken, ctx.now_ms, DAMAGE_WINDOW_MS)
              < DAMAGE_THRESHOLD THEN <<>>
    ELSE << advice(<<"am_under_pressure", event.spell_id>>, "Good",
                   [recent_dmg_k |->
                      recent_damage(ctx.state.damage_taken, ctx.now_ms, DAMAGE_WINDOW_MS)
                        \div 1000],
                   ctx.now_ms) >>

----------------------------------------------------------------------------
(* engine.rs: dedup *)

COOLDOWN_BAD_MS  == 8000
COOLDOWN_WARN_MS == 12000
COOLDOWN_GOOD_MS == 20000

\* advice_cooldown_ms
advice_cooldown_ms(severity) ==
    CASE severity = "Bad"  -> COOLDOWN_BAD_MS
      [] severity = "Warn" -> COOLDOWN_WARN_MS
      [] severity = "Good" -> COOLDOWN_GOOD_MS

\* can_fire that compares against the last firing of any severity's shortest cooldown
can_fire_any_gap(advice_last_ms, key, severity, now_ms) ==
    LET last == IF Has(advice_last_ms, key) THEN advice_last_ms[key] ELSE 0
    IN  SatSub(now_ms, last) >= COOLDOWN_BAD_MS

\* EngineState::can_fire
can_fire(advice_last_ms, key, severity, now_ms) ==
    LET cooldown == advice_cooldown_ms(severity)
        last     == IF Has(advice_last_ms, key) THEN advice_last_ms[key] ELSE 0
    IN  SatSub(now_ms, last) >= cooldown

\* EngineState::mark_fired
mark_fired(advice_last_ms, key, now_ms) == Put(advice_last_ms, key, now_ms)

Candidates_coached_rules_first(e, event, ctx) ==
    (IF is_coached_event(event, ctx.state.player_guid)
     THEN defensive_timing_evaluate(event, ctx, e.effective_am_spells)
          \o interrupt_success_evaluate(event, ctx)
          \o cooldown_drift_evaluate(event, ctx, e.effective_major_cds)
          \o gcd_gap_evaluate(event, ctx)
          \o avoidable_repeat_evaluate(event, ctx)
     ELSE <<>>)
    \o (IF ctx.state.in_combat THEN interrupt_miss_evaluate(event, ctx) ELSE <<>>)

\* candidates of run(): pass 1 (enemy rules) then pass 2 (coached player rules)
Candidates(e, event, ctx) ==
    (IF ctx.state.in_combat THEN interrupt_miss_evaluate(event, ctx) ELSE <<>>)
    \o (IF is_coached_event(event, ctx.state.player_guid)
        THEN avoidable_repeat_evaluate(event, ctx)
             \o gcd_gap_evaluate(event, ctx)
             \o cooldown_drift_evaluate(event, ctx, e.effective_major_cds)
             \o interrupt_success_evaluate(event, ctx)
             \o defensive_timing_evaluate(event, ctx, e.effective_am_spells)
        ELSE <<>>)

\* the "dedup + fire all candidates" loop of run().  acc carries the engine
\* fields the loop writes and what it sends.
RECURSIVE FireAll(_, _, _)
FireAll(cands, acc, now_ms) ==
    IF cands = <<>> THEN acc
    ELSE LET a == Head(cands)
         IN  IF can_fire(acc.advice_last_ms, a.key, a.severity, now_ms)
             THEN FireAll(Tail(cands),
                    [acc EXCEPT
                       !.pull_gcd_gap_count = IF a.key[1] = "gcd_gap" THEN @ + 1 ELSE @,
                       !.advice_last_ms     = mark_fired(@, a.key, now_ms),
                       !.pull_advice_count  = @ + 1,
                       !.db = IF IsSome(acc.current_pull_id)
                              THEN Append(@, [cmd |-> "InsertAdvice",
                                              pull_id |-> Get(acc.current_pull_id),
                                              fired_at |-> now_ms,
                                              rule_key |-> a.key,
                                              severity |-> a.severity])
                              ELSE @,
                       !.sent = Append(@, a)],
                    now_ms)
             ELSE FireAll(Tail(cands), [acc EXCEPT !.suppressed = Append(@, a)], now_ms)

----------------------------------------------------------------------------
(* specs.rs: the embedded profile library.  One profile is modelled, with   *)
(* the ids its tests name.  A spec key is the pair split at '/'.             *)

SpecProfiles ==
    { [class |-> "PALADIN", spec_name |-> "Retribution",
       major_cd_spell_ids |-> {SpellAvenge}, am_spell_ids |-> {SpellDivine}] }

\* specs::load_spec
load_spec(class, spec_name) ==
    LET found == { p \in SpecProfiles :
                     EqIgnoreAsciiCase(p.class, class)
                     /\ EqIgnoreAsciiCase(p.spec_name, spec_name) }
    IN  IF found = {} THEN None ELSE Some(CHOOSE p \in found : TRUE)

\* specs::load_by_key
load_by_key(key) == IF Len(key) < 2 THEN None ELSE load_spec(key[1], key[2])

----------------------------------------------------------------------------
(* engine.rs: EngineState and the three branches of run() *)

\* PlayerIdentity::unknown
PlayerIdentity_unknown == [guid |-> <<>>, name |-> "Unknown", class |-> "", spec |-> ""]

\* config.player_focus.split('-').next().unwrap_or("")
FocusOf(cfg) == extract_char_name(cfg.player_focus)

\* EngineState::new
EngineState_new(config, session_id) ==
    LET profile == load_by_key(config.selected_spec)
    IN  [identity            |-> PlayerIdentity_unknown,
         config              |-> config,
         advice_last_ms      |-> EmptyMap,
         session_id          |-> session_id,
         current_pull_id     |-> None,
         pull_number         |-> 0,
         effective_major_cds |-> IF config.selected_spec # <<>> /\ IsSome(profile)
                                 THEN Get(profile).major_cd_spell_ids
                                 ELSE config.major_cds,
         effective_am_spells |-> IF config.selected_spec # <<>> /\ IsSome(profile)
                                 THEN Get(profile).am_spell_ids
                                 ELSE {},
         focus_name          |-> FocusOf(config),
         player_name_cache   |-> EmptyMap,
         pull_advice_count   |-> 0,
         pull_gcd_gap_count  |-> 0]

CacheStep_never_caches(cache, player_guid, event) == cache

\* run(): the passive name->GUID cache, written while the player is unidentified
CacheStep(cache, player_guid, event) ==
    IF ~IsSome(player_guid)
       /\ event.kind = "SpellCastSuccess"
       /\ StartsWithPlayerDash(event.source_guid)
       /\ ~Has(cache, ToAsciiLowercase(extract_char_name(event.source_name)))
    THEN Put(cache, ToAsciiLowercase(extract_char_name(event.source_name)), event.source_guid)
    ELSE cache

\* run(): GUID inference from the first matching SPELL_CAST_SUCCESS
InferGuid(player_guid, focus_name, event) ==
    IF ~IsSome(player_guid) /\ focus_name # ""
       /\ event.kind = "SpellCastSuccess"
       /\ EqIgnoreAsciiCase(extract_char_name(event.source_name), focus_name)
    THEN Some(event.source_guid)
    ELSE player_guid

\* an outcome string that does not depend on the outcome
OutcomeStr_always_wipe(outcome) == "wipe"

\* format!("{:?}", outcome).to_lowercase()
OutcomeStr(outcome) ==
    CASE outcome = "Kill" -> "kill"
      [] outcome = "Wipe" -> "wipe"

\* a debrief that reports every advice of the pull as a GCD gap
Debrief_counts_all_as_gcd_gap(e, state) ==
    LET last == state.pull_history[Len(state.pull_history)]
    IN  [pull_number        |-> e.pull_number,
         pull_elapsed_ms    |-> IF Len(state.pull_history) > 0 /\ IsSome(last.end_ms)
                                THEN SatSub(Get(last.end_ms), last.start_ms) ELSE 0,
         outcome            |-> IF Len(state.pull_history) > 0 /\ IsSome(last.outcome)
                                THEN OutcomeStr(Get(last.outcome)) ELSE "unknown",
         avoidable_count    |-> total_hits(state.avoidable),
         interrupt_count    |-> state.interrupt_count,
         total_advice_fired |-> e.pull_advice_count,
         gcd_gap_count      |-> e.pull_advice_count]

\* run(): the PullDebrief built at pull end
Debrief(e, state) ==
    LET last == state.pull_history[Len(state.pull_history)]
    IN  [pull_number        |-> e.pull_number,
         pull_elapsed_ms    |-> IF Len(state.pull_history) > 0 /\ IsSome(last.end_ms)
                                THEN SatSub(Get(last.end_ms), last.start_ms) ELSE 0,
         outcome            |-> IF Len(state.pull_history) > 0 /\ IsSome(last.outcome)
                                THEN OutcomeStr(Get(last.outcome)) ELSE "unknown",
         avoidable_count    |-> total_hits(state.avoidable),
         interrupt_count    |-> state.interrupt_count,
         total_advice_fired |-> e.pull_advice_count,
         gcd_gap_count      |-> e.pull_gcd_gap_count]

\* run(): the StateSnapshot emitted after every event
Snapshot(state, now_ms) ==
    [pull_elapsed_ms |-> pull_elapsed_ms(state, now_ms),
     gcd_gap_ms      |-> state.gcd.current_gap_ms,
     avoidable_count |-> total_hits(state.avoidable),
     in_combat       |-> state.in_combat,
     interrupt_count |-> state.interrupt_count,
     encounter_name  |-> state.encounter_name]

\* pull end that leaves the store's pull id in place
ClosePull_keeps_pull_id(e, closed) ==
    IF closed THEN [e EXCEPT !.advice_last_ms = EmptyMap] ELSE e

\* run(), end of the "Pull end" block: current_pull_id.take() and the reset
\* of the per-pull dedup map
ClosePull(e, closed) ==
    IF closed
    THEN [e EXCEPT !.current_pull_id = None, !.advice_last_ms = EmptyMap]
    ELSE e

\* a pull start seen on every event that leaves the engine in combat
PullOpened_whenever_in_combat(was_in_combat, in_combat) == in_combat

\* run(), "Pull start": the transition test
PullOpened(was_in_combat, in_combat) == ~was_in_combat /\ in_combat

\* a pull end seen on every event that leaves the engine out of combat
PullClosed_whenever_idle(was_in_combat, in_combat) == ~in_combat

\* run(), "Pull end": the transition test
PullClosed(was_in_combat, in_combat) == was_in_combat /\ ~in_combat

\* a pull counter that is not advanced
NextPullNumber_stuck(n) == n

\* run(), "Pull start": eng.pull_number += 1
NextPullNumber(n) == n + 1

\* run(), "result = event_rx.recv()": the whole handling of one log event.
InsertPullResult_error_abandons_pull(e, insert_ok, rows) ==
    IF insert_ok THEN [e EXCEPT !.current_pull_id = Some(rows + 1)]
    ELSE [e EXCEPT !.pull_number = @ - 1]

\* the match on db.insert_pull(..).await: Ok(id) stores the row id, Err(e)
\* only logs a warning
InsertPullResult(e, insert_ok, rows) ==
    IF insert_ok THEN [e EXCEPT !.current_pull_id = Some(rows + 1)] ELSE e

\* insert_ok is the outcome of the store's InsertPull.  The result carries the
\* new combat state, the new engine state and what the step sent.
HandleEvent(state0, e0, rows, event, insert_ok) ==
    LET now_ms == timestamp_ms(event)
        cache  == CacheStep(e0.player_name_cache, state0.player_guid, event)
        guid   == InferGuid(state0.player_guid, e0.focus_name, event)
        was_in_combat == state0.in_combat
        state1 == update_state([state0 EXCEPT !.player_guid = guid], event, now_ms)
        opened == PullOpened(was_in_combat, state1.in_combat)
        closed == PullClosed(was_in_combat, state1.in_combat)
        \* pull start
        e1 == IF opened
              THEN InsertPullResult([e0 EXCEPT !.player_name_cache  = cache,
                                               !.pull_number        = NextPullNumber(@),
                                               !.pull_advice_count  = 0,
                                               !.pull_gcd_gap_count = 0],
                                    insert_ok, rows)
              ELSE [e0 EXCEPT !.player_name_cache = cache]
        db1 == IF opened
               THEN << [cmd |-> "InsertPull", session_id |-> e0.session_id,
                        pull_number |-> e1.pull_number, started_at |-> now_ms,
                        ok |-> insert_ok] >>
               ELSE <<>>
        \* pull end
        debrief == IF closed THEN Some(Debrief(e1, state1)) ELSE None
        db2 == IF closed /\ IsSome(e1.current_pull_id)
               THEN Append(db1, [cmd |-> "EndPull", pull_id |-> Get(e1.current_pull_id),
                                 ended_at |-> now_ms, outcome |-> Get(debrief).outcome])
               ELSE db1
        e2 == ClosePull(e1, closed)
        \* rule evaluation, dedup, fire
        ctx == [state |-> state1, intensity |-> e2.config.intensity, now_ms |-> now_ms]
        acc == FireAll(Candidates(e2, event, ctx),
                       [advice_last_ms     |-> e2.advice_last_ms,
                        pull_advice_count  |-> e2.pull_advice_count,
                        pull_gcd_gap_count |-> e2.pull_gcd_gap_count,
                        current_pull_id    |-> e2.current_pull_id,
                        db |-> db2, sent |-> <<>>, suppressed |-> <<>>],
                       now_ms)
    IN  [combat  |-> state1,
         eng     |-> [e2 EXCEPT !.advice_last_ms     = acc.advice_last_ms,
                                !.pull_advice_count  = acc.pull_advice_count,
                                !.pull_gcd_gap_count = acc.pull_gcd_gap_count],
         rows    |-> IF opened /\ insert_ok THEN rows + 1 ELSE rows,
         opened  |-> opened,
         closed  |-> closed,
         stale0  |-> DOMAIN e0.advice_last_ms,
         sent    |-> acc.sent,
         suppressed |-> acc.suppressed,
         db      |-> acc.db,
         debrief |-> debrief,
         snap    |-> Some(Snapshot(state1, now_ms))]

----------------------------------------------------------------------------
(* Inputs.  Timestamps are chosen per event kind so that the dedup cooldowns *)
(* (8 s, 12 s, 20 s), the 2.5 s gap threshold, the 8 s drift threshold and   *)
(* the 5 s damage window are each met and missed, and so that the literal    *)
(* scenarios S1, S3 and S4 are among the runs; they are not monotonic.       *)

Events ==
    { SpellCastSuccess(t, PlayerA, SpellMajorCd) : t \in {0, 9000, 20000} }
    \cup { SpellCastSuccess(20000, PlayerA, SpellDivine) }
    \cup { SpellCastSuccess(t, CreatureM, SpellKick) : t \in {9000, 20000} }
    \cup { SpellCastSuccess(20000, PlayerB, SpellKick) }
    \cup { SpellCastSuccess(20000, CreatureA, SpellKick) }
    \cup { SpellDamage(t, PlayerA, SpellFire, 1000) : t \in {500, 1500, 9000} }
    \cup { SpellDamage(20000, PlayerA, SpellFire, 20000) }
    \cup { SpellDamage(9000, CreatureM, SpellFire, 1000) }
    \cup { SwingDamage(20000, PlayerA, 1000) }
    \cup { UnitDied(20000, CreatureM), UnitDied(9000, PlayerA) }
    \cup { SpellInterrupted(t, PlayerA, SpellKick) : t \in {2000, 20000} }
    \cup { SpellInterrupted(9000, CreatureM, SpellKick) }
    \cup { EncounterStart(t) : t \in {0, 9000} }
    \cup { EncounterEnd(20000, TRUE), EncounterEnd(9000, FALSE) }
    \cup { SpellHeal(9000, PlayerA) }

Intensities == 1..5

Config(focus, spec, intensity) ==
    [player_focus |-> focus, selected_spec |-> spec, intensity |-> intensity,
     major_cds |-> {SpellMajorCd}]

\* the configuration run() is started with: no focus, no selected spec,
\* default_intensity, and the user's major_cds list
StartConfig == Config(<<>>, <<>>, 3)

Configs ==
    { Config(<<>>, <<>>, i) : i \in Intensities }
    \cup { Config(<<"alice", "Realm">>, <<>>, i) : i \in {2, 3} }

Identities ==
    { [guid |-> PlayerA, name |-> "Alice", class |-> "PALADIN", spec |-> "Retribution"],
      [guid |-> PlayerA, name |-> "Alice", class |-> "", spec |-> ""] }

\* outcome of the store's InsertPull: a row id, or an error
InsertResults == {TRUE, FALSE}

----------------------------------------------------------------------------
(* Specification *)

\* db_writer_loop: the effect of one command on the advice_events table.
\* pulls is the number of rows of the pulls table; an advice row whose
\* pull_id names no pull row is rejected by the foreign key.
ExecCommand_skips_advice(rows, cmd, pulls) == rows

ExecCommand(rows, cmd, pulls) ==
    IF cmd.cmd = "InsertAdvice" /\ cmd.pull_id \in 1..pulls
    THEN Append(rows, [pull_id |-> cmd.pull_id, rule_key |-> cmd.rule_key,
                       fired_at |-> cmd.fired_at])
    ELSE rows

\* db_writer_loop run over a sequence of commands
RECURSIVE ExecAll(_, _, _)
ExecAll(rows, cmds, pulls) ==
    IF cmds = <<>> THEN rows
    ELSE ExecAll(ExecCommand(rows, Head(cmds), pulls), Tail(cmds), pulls)

\* a command as it appears in the channel history: InsertPull with its reply
Logged(cmd, rows) ==
    IF cmd.cmd = "InsertPull"
    THEN [cmd |-> "InsertPull", pull_number |-> cmd.pull_number,
          reply |-> IF cmd.ok THEN Some(rows) ELSE None]
    ELSE cmd

LogAll(cmds, rows) == [i \in 1..Len(cmds) |-> Logged(cmds[i], rows)]

\* the engine sends cmds to the writer.  insert_pull awaits its reply, so
\* when cmds starts with InsertPull everything queued before it and the
\* InsertPull itself have been executed when the step ends.
StoreSend(cmds, rows, awaited, in_pull, advices, pull_id) ==
    IF ~db_tracked THEN UNCHANGED storeVars
    ELSE /\ \E q \in {IF awaited THEN Tail(cmds) ELSE db_queue \o cmds} :
            /\ db_queue' = SubSeq(q, 1, Min(Len(q), MaxDbQueue))
            /\ db_pending' = SubSeq(q, MaxDbQueue + 1, Len(q))
         /\ db_advice_rows' = IF awaited THEN ExecAll(db_advice_rows, db_queue, db_pull_rows)
                              ELSE db_advice_rows
         /\ db_log' = db_log \o LogAll(cmds, rows)
         /\ delivered' = IF in_pull
                         THEN delivered \o [i \in 1..Len(advices) |->
                                              [key |-> advices[i].key,
                                               fired_at |-> advices[i].timestamp_ms,
                                               pull_id |-> pull_id]]
                         ELSE delivered

\* the combat logs the game writes into the Logs directory (WoWCombatLog*.txt)
LogA == "WoWCombatLog-A.txt"
LogB == "WoWCombatLog-B.txt"
LogC == "WoWCombatLog-C.txt"
LogFiles == {LogA, LogB, LogC}

\* run() before the loop, session_id being what insert_session returned, or
\* -1 after its failure
EngineInitWith(session_id) ==
    /\ combat = CombatState_new
    /\ eng = EngineState_new(StartConfig, session_id)
    /\ db_pull_rows = 0
    /\ ev = None
    /\ sent = <<>>
    /\ suppressed = <<>>
    /\ debrief_out = None
    /\ snap_out = None
    /\ db_out = <<>>
    /\ nSteps = 0
    /\ pull_firings = {}
    /\ stale_keys = {}
    /\ pull_casts = <<>>
    /\ pull_hits = EmptyMap
    /\ debrief_log = <<>>
    /\ db_queue = <<>>
    /\ db_advice_rows = <<>>
    /\ db_log = <<>>
    /\ delivered = <<>>
    /\ db_pending = <<>>

EngineInit == EngineInitWith(1)

\* lib.rs: the queues between the tasks; a queue is open while a sender exists
\* who calls try_start_pipeline: setup, and the save_config commands in flight
Callers == {"setup", "save_a", "save_b"}

Channels == {"line", "event", "identity", "config", "advice", "snapshot", "debrief", "db"}
Tasks == {"parser", "engine", "fanout"}

\* the queues as created, every task spawned
PipelineStarted ==
    /\ chan = [c \in Channels |-> [open |-> TRUE, q |-> <<>>]]
    /\ task = [t \in Tasks |-> "running"]
    /\ lines_sent = <<>>
    /\ processed = <<>>
    /\ snap_cell = None
    /\ ring = <<>>
    /\ ring_hist = <<>>
    /\ cfg_path_set = TRUE
    /\ ready = TRUE
    /\ bundle = FALSE
    /\ spawns = 1
    /\ call = [c \in Callers |-> [pc |-> "returned", saves |-> 0, boot_path |-> TRUE]]
    /\ start_hist = [skipped |-> FALSE, lost |-> FALSE, bundle_missing |-> FALSE]

\* the tailer task before tailer::run has been entered, over an empty Logs directory
TailerNotStarted ==
    /\ files = [f \in LogFiles |-> [exists |-> FALSE, content |-> <<>>]]
    /\ mtimes = <<>>
    /\ fs_q = <<>>
    /\ tailer = [pc |-> "start", active_file |-> None, position |-> 0, file_len |-> 0]
    /\ line_q = <<>>
    /\ conn = [last |-> None, now |-> FALSE]
    /\ tail_hist = [rewritten |-> {}, rotated |-> FALSE, last_read |-> None]

Init ==
    /\ EngineInit
    /\ feed = [events |-> Events, identities |-> Identities, configs |-> Configs]
    /\ db_tracked = FALSE
    /\ dir_ok = TRUE
    /\ TailerNotStarted
    /\ PipelineStarted

\* run(): one log event received on event_rx
ProcessEvent(event, insert_ok) ==
    /\ nSteps < MaxSteps
    /\ event \in feed.events
    /\ db_pending = <<>>
    /\ \E r \in {HandleEvent(combat, eng, db_pull_rows, event, insert_ok)} :
       LET fired == { r.sent[i].key : i \in 1..Len(r.sent) }
           coached_cast == event.kind = "SpellCastSuccess"
                           /\ IsPlayer(event.source_guid, r.combat.player_guid)
           coached_hit  == event.kind = "SpellDamage"
                           /\ IsPlayer(event.dest_guid, r.combat.player_guid)
           casts0 == IF r.opened THEN <<>> ELSE pull_casts
           hits0  == IF r.opened THEN EmptyMap ELSE pull_hits
       IN  /\ ~r.opened => insert_ok     \* InsertPull is only issued when a pull opens
           \* pulls.session_id REFERENCES sessions(id): no pull row without a session row
           /\ (r.opened /\ eng.session_id < 0) => ~insert_ok
           /\ combat' = r.combat
           /\ eng' = r.eng
           /\ db_pull_rows' = r.rows
           /\ ev' = Some(event)
           /\ sent' = r.sent
           /\ suppressed' = r.suppressed
           /\ debrief_out' = r.debrief
           /\ snap_out' = r.snap
           /\ db_out' = r.db
           /\ StoreSend(r.db, r.rows, r.opened, r.combat.in_combat, r.sent,
                        r.eng.current_pull_id)
           /\ pull_firings' =
                (IF r.opened THEN {} ELSE pull_firings)
                \cup (IF r.combat.in_combat
                      THEN { [key |-> r.sent[i].key, severity |-> r.sent[i].severity,
                              ts |-> timestamp_ms(event)] : i \in 1..Len(r.sent) }
                      ELSE {})
           /\ stale_keys' =
                (IF r.opened THEN r.stale0 ELSE IF r.closed THEN {} ELSE stale_keys) \ fired
           /\ pull_casts' =
                IF coached_cast
                THEN Append(casts0, [spell_id |-> event.spell_id,
                                     ts |-> timestamp_ms(event),
                                     drift |-> <<"cooldown_drift">> \in fired])
                ELSE casts0
           /\ pull_hits' =
                IF coached_hit /\ r.combat.in_combat
                THEN Put(hits0, event.spell_id,
                         (IF Has(hits0, event.spell_id) THEN hits0[event.spell_id] ELSE 0) + 1)
                ELSE hits0
           /\ debrief_log' = IF IsSome(r.debrief)
                             THEN Append(debrief_log, Get(r.debrief).pull_number)
                             ELSE debrief_log
    /\ nSteps' = nSteps + 1
    /\ UNCHANGED <<feed, db_tracked, tailerVars, pipeVars>>

\* run(): one PlayerIdentity received on id_rx
IdentityUpdate(identity) ==
    /\ nSteps < MaxSteps
    /\ identity \in feed.identities
    /\ db_pending = <<>>
    /\ LET profile == load_spec(identity.class, identity.spec)
           autoload == eng.config.selected_spec = <<>> /\ IsSome(profile)
       IN  /\ combat' = [combat EXCEPT !.player_guid = Some(identity.guid)]
           /\ eng' = [eng EXCEPT
                        !.effective_major_cds =
                            IF autoload THEN Get(profile).major_cd_spell_ids ELSE @,
                        !.effective_am_spells =
                            IF autoload THEN Get(profile).am_spell_ids ELSE @,
                        !.identity = identity]
           /\ db_out' = IF eng.session_id > 0 /\ identity.guid # <<>>
                        THEN << [cmd |-> "UpdateSession", session_id |-> eng.session_id,
                                 player_name |-> identity.name,
                                 player_guid |-> identity.guid] >>
                        ELSE <<>>
           /\ StoreSend(db_out', db_pull_rows, FALSE, FALSE, <<>>, None)
    /\ ev' = None /\ sent' = <<>> /\ suppressed' = <<>>
    /\ debrief_out' = None /\ snap_out' = None
    /\ nSteps' = nSteps + 1
    /\ UNCHANGED <<db_pull_rows, pull_firings, stale_keys, pull_casts, pull_hits,
                   debrief_log, feed, db_tracked, tailerVars, pipeVars>>

\* run(): one AppConfig received on config_rx
ConfigUpdate(new_cfg) ==
    /\ nSteps < MaxSteps
    /\ new_cfg \in feed.configs
    /\ db_pending = <<>>
    /\ LET new_focus == FocusOf(new_cfg)
           changed   == new_focus # eng.focus_name
           cache_key == ToAsciiLowercase(new_focus)
           profile   == load_by_key(new_cfg.selected_spec)
           respec    == new_cfg.selected_spec # eng.config.selected_spec
                        /\ new_cfg.selected_spec # <<>>
                        /\ IsSome(profile)
       IN  /\ combat' = [combat EXCEPT
                           !.player_guid =
                               IF ~changed THEN @
                               ELSE IF Has(eng.player_name_cache, cache_key)
                                    THEN Some(eng.player_name_cache[cache_key])
                                    ELSE None]
           /\ eng' = [eng EXCEPT
                        !.focus_name = IF changed THEN new_focus ELSE @,
                        !.effective_major_cds =
                            IF respec THEN Get(profile).major_cd_spell_ids ELSE @,
                        !.effective_am_spells =
                            IF respec THEN Get(profile).am_spell_ids ELSE @,
                        !.config = new_cfg]
    /\ ev' = None /\ sent' = <<>> /\ suppressed' = <<>>
    /\ debrief_out' = None /\ snap_out' = None /\ db_out' = <<>>
    /\ nSteps' = nSteps + 1
    /\ UNCHANGED <<db_pull_rows, pull_firings, stale_keys, pull_casts, pull_hits,
                   debrief_log, feed, db_tracked, storeVars, tailerVars, pipeVars>>

Next ==
    \/ \E event \in Events, insert_ok \in InsertResults : ProcessEvent(event, insert_ok)
    \/ \E identity \in Identities : IdentityUpdate(identity)
    \/ \E new_cfg \in Configs : ConfigUpdate(new_cfg)

Spec == Init /\ [][Next]_vars

----------------------------------------------------------------------------
(* The engine together with the store's writer thread (db.rs).  The log    *)
(* carries the events that open and close pulls and make advice fire.      *)

StoreEvents ==
    { SpellInterrupted(20000, PlayerA, SpellKick) }
    \cup { SpellCastSuccess(t, CreatureM, SpellKick) : t \in {9000, 20000} }
    \cup { SpellCastSuccess(20000, PlayerA, SpellMajorCd) }
    \cup { UnitDied(20000, CreatureM) }

\* what insert_session gives the engine: the session's row id, or -1
SessionResults == {1, -1}

InitStore ==
    /\ \E session_id \in SessionResults : EngineInitWith(session_id)
    /\ feed = [events |-> StoreEvents,
               identities |-> { id \in Identities : id.class = "" },
               configs |-> { StartConfig }]
    /\ db_tracked = TRUE
    /\ dir_ok = TRUE
    /\ TailerNotStarted
    /\ PipelineStarted

\* db_writer_loop: the writer thread takes the next command off its channel
\* and executes it
DbWriterStep ==
    /\ db_tracked
    /\ db_queue # <<>>
    /\ db_advice_rows' = ExecCommand(db_advice_rows, Head(db_queue), db_pull_rows)
    /\ db_queue' = Tail(db_queue)
    /\ UNCHANGED <<combat, eng, db_pull_rows, ev, sent, suppressed, debrief_out, snap_out,
                   db_out, nSteps, pull_firings, stale_keys, pull_casts, pull_hits,
                   debrief_log, feed, db_tracked, db_log, delivered, db_pending,
                   tailerVars, pipeVars>>

\* SyncSender::send returning once the channel has room: the engine, blocked
\* in update_session, end_pull or insert_advice, hands over its command
EngineBlockedSend ==
    /\ db_tracked
    /\ db_pending # <<>>
    /\ Len(db_queue) < MaxDbQueue
    /\ db_queue' = Append(db_queue, Head(db_pending))
    /\ db_pending' = Tail(db_pending)
    /\ UNCHANGED <<combat, eng, db_pull_rows, ev, sent, suppressed, debrief_out, snap_out,
                   db_out, nSteps, pull_firings, stale_keys, pull_casts, pull_hits,
                   debrief_log, feed, db_tracked, db_advice_rows, db_log, delivered,
                   tailerVars, pipeVars>>

NextStore == Next \/ DbWriterStep \/ EngineBlockedSend

\* the writer thread blocks on recv and runs whenever a command is queued
SpecStore ==
    InitStore /\ [][NextStore]_vars /\ WF_vars(DbWriterStep) /\ WF_vars(EngineBlockedSend)

-----------------------------------------------------------------------------
(* tailer.rs: the log tailer and the Logs directory it follows *)

NL == "\n"

\* the game's writes: one whole line, or the first byte of a line not yet terminated
WholeLine == <<"a", NL>>
Fragment == <<"b">>
Chunks == {WholeLine, Fragment}

MaxLen == 4         \* bytes a log file grows to
MaxFsQueue == 2     \* notify events waiting in the watcher's channel
MaxRewrites == 1    \* times the game truncates a log file

Touched(order, f) == SelectSeq(order, LAMBDA x : x # f) \o <<f>>

\* config.rs find_latest_log: the matching file with the greatest modification time
find_latest_log(order) == IF order = <<>> THEN None ELSE Some(order[Len(order)])

\* TailerState::new
TailerState_new(order) ==
    [active_file |-> find_latest_log(order), position |-> 0]

\* TailerState::check_for_new_log
check_for_new_log(st, order) ==
    LET newest == find_latest_log(order) IN
    IF ~IsSome(newest) THEN st
    ELSE IF st.active_file # newest
         THEN [st EXCEPT !.active_file = newest, !.position = 0]
         ELSE st

\* read_new_lines without the rotation test: the position is kept as it is
RotationCheck_keeps_position(position, file_len) == position

\* read_new_lines: the rotation test on the length metadata() returned
RotationCheck(position, file_len) == IF file_len < position THEN 0 ELSE position

\* BufReader::lines() over the bytes from offset `start`: the segments between
\* newlines, the unterminated segment at EOF included; empty lines are skipped
\* by the `!l.is_empty()` guard of the loop
RECURSIVE Scan(_, _, _, _)
Scan(content, i, start, acc) ==
    IF i > Len(content)
    THEN IF start < Len(content)
         THEN Append(acc, [off |-> start, text |-> SubSeq(content, start + 1, Len(content))])
         ELSE acc
    ELSE IF content[i] = NL
         THEN Scan(content, i + 1, i,
                   IF i - 1 > start
                   THEN Append(acc, [off |-> start, text |-> SubSeq(content, start + 1, i - 1)])
                   ELSE acc)
         ELSE Scan(content, i + 1, start, acc)

BufReadLines(content, position) ==
    IF position >= Len(content) THEN <<>> ELSE Scan(content, position + 1, position, <<>>)

Sent(file, lines) == [i \in 1..Len(lines) |-> [file |-> file, off |-> lines[i].off, text |-> lines[i].text]]

\* the watcher exists from watcher.watch(..) until run() returns
Watching == tailer.pc \notin {"start", "failed"}

\* notify reports a change in the watched directory on the watcher's channel
Notify(kind, f) == Append(fs_q, [kind |-> kind, path |-> f])

AtLineStart(content) == IF content = <<>> THEN TRUE ELSE content[Len(content)] = NL

Quiet == [conn EXCEPT !.now = FALSE]

emit_connection(log_tailing) == [last |-> Some(log_tailing), now |-> TRUE]

\* the game creates a new, empty log file
GameCreate(f) ==
    /\ Watching
    /\ ~files[f].exists
    /\ Len(fs_q) < MaxFsQueue
    /\ files' = [files EXCEPT ![f].exists = TRUE]
    /\ mtimes' = Touched(mtimes, f)
    /\ fs_q' = Notify("Create", f)
    /\ conn' = Quiet
    /\ UNCHANGED <<dir_ok, tailer, line_q, tail_hist, engineVars, pipeVars>>

\* the game appends to a log file
GameAppend(f, chunk) ==
    /\ Watching
    /\ files[f].exists
    /\ Len(files[f].content) + Len(chunk) <= MaxLen
    /\ chunk = Fragment => AtLineStart(files[f].content)
    /\ Len(fs_q) < MaxFsQueue
    /\ files' = [files EXCEPT ![f].content = @ \o chunk]
    /\ mtimes' = Touched(mtimes, f)
    /\ fs_q' = Notify("Modify", f)
    /\ conn' = Quiet
    /\ UNCHANGED <<dir_ok, tailer, line_q, tail_hist, engineVars, pipeVars>>

\* the game truncates a log file to write it anew
GameRewrite(f) ==
    /\ Watching
    /\ files[f].exists
    /\ files[f].content # <<>>
    /\ Cardinality(tail_hist.rewritten) < MaxRewrites
    /\ f \notin tail_hist.rewritten
    /\ Len(fs_q) < MaxFsQueue
    /\ files' = [files EXCEPT ![f].content = <<>>]
    /\ mtimes' = Touched(mtimes, f)
    /\ fs_q' = Notify("Modify", f)
    /\ tail_hist' = [tail_hist EXCEPT !.rewritten = @ \cup {f}]
    /\ conn' = Quiet
    /\ UNCHANGED <<dir_ok, tailer, line_q, engineVars, pipeVars>>

\* a change of a file's metadata, which notify reports as a Modify event
GameTouch(f) ==
    /\ Watching
    /\ files[f].exists
    /\ Len(fs_q) < MaxFsQueue
    /\ fs_q' = Notify("Modify", f)
    /\ conn' = Quiet
    /\ UNCHANGED <<dir_ok, files, mtimes, tailer, line_q, tail_hist, engineVars, pipeVars>>

\* run(): watcher.watch(..)?, TailerState::new, the initial emit_connection
TailerStart ==
    /\ tailer.pc = "start"
    /\ IF ~dir_ok
       THEN /\ tailer' = [tailer EXCEPT !.pc = "failed"]
            /\ conn' = Quiet
       ELSE \E st \in {TailerState_new(mtimes)} :
            /\ tailer' = [pc |-> "init_stat", active_file |-> st.active_file,
                          position |-> st.position, file_len |-> 0]
            /\ conn' = emit_connection(IsSome(st.active_file))
    /\ UNCHANGED <<dir_ok, files, mtimes, fs_q, line_q, tail_hist, engineVars, pipeVars>>

\* read_new_lines up to `if file_len == self.position`: resolve the path, take
\* the length, test for rotation
ReadStat ==
    /\ tailer.pc \in {"init_stat", "loop_stat"}
    /\ \E st \in {IF ~IsSome(tailer.active_file) THEN check_for_new_log(tailer, mtimes) ELSE tailer} :
        IF ~IsSome(st.active_file)
        THEN /\ tailer' = [st EXCEPT !.pc = "wait"]
             /\ UNCHANGED tail_hist
        ELSE \E file_len \in {Len(files[Get(st.active_file)].content)} :
             \E position \in {RotationCheck(st.position, file_len)} :
                /\ tailer' = [st EXCEPT !.position = position,
                                        !.file_len = file_len,
                                        !.pc = IF file_len = position THEN "wait"
                                               ELSE IF st.pc = "init_stat" THEN "init_read"
                                               ELSE "loop_read"]
                /\ tail_hist' = [tail_hist EXCEPT !.rotated = file_len < st.position]
    /\ conn' = Quiet
    /\ UNCHANGED <<dir_ok, files, mtimes, fs_q, line_q, engineVars, pipeVars>>

\* read_new_lines from File::open on: seek, send every line up to EOF, then
\* `self.position = file_len` with the length taken before the read
ReadLines(open_ok) ==
    /\ tailer.pc \in {"init_read", "loop_read"}
    /\ IF ~open_ok
       THEN /\ tailer' = [tailer EXCEPT !.pc = IF tailer.pc = "init_read" THEN "failed" ELSE "wait"]
            /\ UNCHANGED <<line_q, tail_hist>>
       ELSE \E lines \in {BufReadLines(files[Get(tailer.active_file)].content, tailer.position)} :
            /\ line_q' = line_q \o Sent(Get(tailer.active_file), lines)
            /\ tailer' = [tailer EXCEPT !.position = tailer.file_len, !.pc = "wait"]
            /\ tail_hist' = [tail_hist EXCEPT !.last_read =
                                Some([file |-> Get(tailer.active_file),
                                      rotated |-> tail_hist.rotated,
                                      from |-> tailer.position,
                                      content |-> files[Get(tailer.active_file)].content,
                                      lines |-> lines])]
    /\ conn' = Quiet
    /\ UNCHANGED <<dir_ok, files, mtimes, fs_q, engineVars, pipeVars>>

\* run(): fs_rx.recv_timeout returned a Create event of a combat log
RecvCreate ==
    /\ tailer.pc = "wait"
    /\ fs_q # <<>>
    /\ Head(fs_q).kind = "Create"
    /\ \E st \in {check_for_new_log(tailer, mtimes)} :
        /\ tailer' = [st EXCEPT !.pc = "loop_stat"]
        /\ conn' = IF ~IsSome(tailer.active_file) /\ IsSome(st.active_file)
                   THEN emit_connection(TRUE) ELSE Quiet
    /\ fs_q' = Tail(fs_q)
    /\ UNCHANGED <<dir_ok, files, mtimes, line_q, tail_hist, engineVars, pipeVars>>

\* run(): fs_rx.recv_timeout returned a Modify event
RecvModify ==
    /\ tailer.pc = "wait"
    /\ fs_q # <<>>
    /\ Head(fs_q).kind = "Modify"
    /\ tailer' = [tailer EXCEPT !.pc = IF tailer.active_file = Some(Head(fs_q).path)
                                       THEN "loop_stat" ELSE "wait"]
    /\ fs_q' = Tail(fs_q)
    /\ conn' = Quiet
    /\ UNCHANGED <<dir_ok, files, mtimes, line_q, tail_hist, engineVars, pipeVars>>

\* run(): recv_timeout timed out, no event having arrived for HEARTBEAT_SECS
Heartbeat ==
    /\ tailer.pc = "wait"
    /\ fs_q = <<>>
    /\ conn' = emit_connection(IsSome(tailer.active_file))
    /\ UNCHANGED <<dir_ok, files, mtimes, fs_q, tailer, line_q, tail_hist, engineVars, pipeVars>>

\* the Logs directory as run() finds it: without a log, or holding LogA with
\* the content given
StartDirs == {None, Some(<<>>), Some(WholeLine)}

InitTailer ==
    /\ EngineInit
    /\ feed = [events |-> {}, identities |-> {}, configs |-> {}]
    /\ db_tracked = FALSE
    /\ dir_ok \in BOOLEAN
    /\ \E start \in (IF dir_ok THEN StartDirs ELSE {None}) :
        /\ files = [f \in LogFiles |-> IF f = LogA /\ IsSome(start)
                                       THEN [exists |-> TRUE, content |-> Get(start)]
                                       ELSE [exists |-> FALSE, content |-> <<>>]]
        /\ mtimes = IF IsSome(start) THEN <<LogA>> ELSE <<>>
    /\ fs_q = <<>>
    /\ tailer = [pc |-> "start", active_file |-> None, position |-> 0, file_len |-> 0]
    /\ line_q = <<>>
    /\ conn = [last |-> None, now |-> FALSE]
    /\ tail_hist = [rewritten |-> {}, rotated |-> FALSE, last_read |-> None]
    /\ PipelineStarted

\* the game writing one log, in whole lines and in pieces, and rewriting it
GameStep ==
    \/ GameCreate(LogA)
    \/ \E chunk \in Chunks : GameAppend(LogA, chunk)
    \/ GameRewrite(LogA)
    \/ GameTouch(LogA)

\* the game starting new logs and writing whole lines to any of them
GameSessions ==
    \/ \E f \in LogFiles : GameCreate(f)
    \/ \E f \in LogFiles : GameAppend(f, WholeLine)

TailerStep ==
    \/ TailerStart
    \/ ReadStat
    \/ \E open_ok \in BOOLEAN : ReadLines(open_ok)
    \/ RecvCreate
    \/ RecvModify
    \/ Heartbeat

NextTailer == GameStep \/ TailerStep

SpecTailer == InitTailer /\ [][NextTailer]_vars /\ WF_vars(TailerStep)

NextSwitch == GameSessions \/ TailerStep

SpecSwitch == InitTailer /\ [][NextSwitch]_vars

-----------------------------------------------------------------------------
(* lib.rs, parser.rs, engine.rs, ipc.rs: the tasks and the queues between them *)

MaxQueue == 2       \* messages a queue holds
MaxLines == 3       \* lines the tailer sends in a run
MaxRing == 2        \* advice items the ring keeps (50 in ipc.rs)

\* the queues fed from outside the three tasks: by the tailer, the identity
\* watcher and the settings commands
Producers == {"line", "identity", "config"}
EngineOut == {"advice", "snapshot", "debrief"}

\* Sender::send on a queue with room
Push_in_front(ch, c, m) == [ch EXCEPT ![c].q = <<m>> \o @]

\* Sender::send once a permit is held: the message goes to the back of the queue
Push(ch, c, m) == [ch EXCEPT ![c].q = Append(@, m)]
\* Receiver::recv returning Some
Pop(ch, c) == [ch EXCEPT ![c].q = Tail(@)]
\* no permit left in the queue
Full(ch, c) == Len(ch[c].q) >= MaxQueue
\* Sender::try_send: the message is dropped when the queue is full
TrySend(ch, c, m) == IF Full(ch, c) THEN ch ELSE Push(ch, c, m)
\* every sender of the queues dropped
Close(ch, cs) == [c \in Channels |-> IF c \in cs THEN [ch[c] EXCEPT !.open = FALSE] ELSE ch[c]]
\* the engine's sends to the store writer for one event: EndPull when it
\* closes a pull, InsertAdvice when a rule fires
StoreSends(ch, fires, closes) ==
    LET c1 == IF closes THEN Push(ch, "db", "EndPull") ELSE ch
    IN  IF fires THEN Push(c1, "db", "InsertAdvice") ELSE c1
\* Receiver::recv returning None: no sender left and nothing buffered
Drained(c) == ~chan[c].open /\ chan[c].q = <<>>

RingPush_refuses_when_full(r, a) == IF Len(r) >= MaxRing THEN r ELSE Append(r, a)

\* q.push_back(advice); if q.len() > 50 { q.pop_front(); }
RingPush(r, a) ==
    LET pushed == Append(r, a)
    IN  IF Len(pushed) > MaxRing THEN Tail(pushed) ELSE pushed

\* the tailer sends a line; parses tells whether parse_line makes an event of
\* it, fires whether a rule's advice passes dedup when the engine handles it
LineSend(parses, fires) ==
    /\ chan["line"].open
    /\ ~Full(chan, "line")
    /\ Len(lines_sent) < MaxLines
    /\ fires => parses
    /\ \E line \in {[n |-> Len(lines_sent) + 1, parses |-> parses, fires |-> fires]} :
          /\ chan' = Push(chan, "line", line)
          /\ lines_sent' = Append(lines_sent, line)
    /\ UNCHANGED <<task, processed, snap_cell, ring, ring_hist, startVars, engineVars,
                 tailerVars>>

\* the identity watcher or a save_config sends on its queue
ProducerSend(c) ==
    /\ c # "line"
    /\ chan[c].open
    /\ ~Full(chan, c)
    /\ chan' = Push(chan, c, c)
    /\ UNCHANGED <<task, flowVars, startVars, engineVars,
                 tailerVars>>

\* a producer task ends and drops its sender
ProducerClose(c) ==
    /\ chan[c].open
    /\ chan' = Close(chan, {c})
    /\ UNCHANGED <<task, flowVars, startVars, engineVars,
                 tailerVars>>

\* parser::run: a line received; a parsed event is sent on, and the task ends
\* if the event queue's receiver is gone
ParserRecv ==
    /\ task["parser"] = "running"
    /\ chan["line"].q # <<>>
    /\ \E line \in {Head(chan["line"].q)} :
          /\ line.parses /\ task["engine"] = "running" => ~Full(chan, "event")
          /\ IF line.parses /\ task["engine"] = "done"
             THEN /\ task' = [task EXCEPT !["parser"] = "done"]
                  /\ chan' = Close(Pop(chan, "line"), {"event"})
             ELSE /\ task' = task
                  /\ chan' = IF line.parses THEN Push(Pop(chan, "line"), "event", line.n)
                             ELSE Pop(chan, "line")
    /\ UNCHANGED <<flowVars, startVars, engineVars,
                 tailerVars>>

\* parser::run: rx.recv() returned None
ParserLinesClosed ==
    /\ task["parser"] = "running"
    /\ Drained("line")
    /\ task' = [task EXCEPT !["parser"] = "done"]
    /\ chan' = Close(chan, {"event"})
    /\ UNCHANGED <<flowVars, startVars, engineVars,
                 tailerVars>>

\* engine::run select!: Some(identity) = id_rx.recv()
EngineRecvIdentity ==
    /\ task["engine"] = "running"
    /\ chan["identity"].q # <<>>
    /\ chan' = Pop(chan, "identity")
    /\ UNCHANGED <<task, flowVars, startVars, engineVars,
                 tailerVars>>

\* engine::run select!: Some(new_cfg) = config_rx.recv()
EngineRecvConfig ==
    /\ task["engine"] = "running"
    /\ chan["config"].q # <<>>
    /\ chan' = Pop(chan, "config")
    /\ UNCHANGED <<task, flowVars, startVars, engineVars,
                 tailerVars>>

\* engine::run select!: an event received; if it closes a pull the debrief
\* goes out by try_send and EndPull to the store writer, if a rule fires
\* InsertAdvice goes to the store writer and the advice out by send().await,
\* whose failure ends the task, and the snapshot by try_send.  The sends to
\* the store writer and on the advice queue wait for room.
EngineRecvEvent_skips_full_queue(closes) ==
    /\ task["engine"] = "running"
    /\ chan["event"].q # <<>>
    /\ \E n \in {Head(chan["event"].q)} :
       \E fires \in {lines_sent[n].fires /\ ~Full(chan, "advice")} :
       \E s \in {StoreSends(Pop(chan, "event"), fires, closes)} :
       \E d \in {IF closes THEN TrySend(s, "debrief", n) ELSE s} :
          /\ Len(s["db"].q) <= MaxQueue
          /\ processed' = Append(processed, n)
          /\ IF fires /\ task["fanout"] = "done"
             THEN /\ task' = [task EXCEPT !["engine"] = "done"]
                  /\ chan' = Close(d, EngineOut)
             ELSE /\ task' = task
                  /\ chan' = TrySend(IF fires THEN Push(d, "advice", n) ELSE d, "snapshot", n)
    /\ UNCHANGED <<lines_sent, snap_cell, ring, ring_hist, startVars, engineVars,
                 tailerVars>>

EngineRecvEvent(closes) ==
    /\ task["engine"] = "running"
    /\ chan["event"].q # <<>>
    /\ \E n \in {Head(chan["event"].q)} :
       \E fires \in {lines_sent[n].fires} :
       \E s \in {StoreSends(Pop(chan, "event"), fires, closes)} :
       \E d \in {IF closes THEN TrySend(s, "debrief", n) ELSE s} :
          /\ Len(s["db"].q) <= MaxQueue
          /\ fires /\ task["fanout"] = "running" => ~Full(chan, "advice")
          /\ processed' = Append(processed, n)
          /\ IF fires /\ task["fanout"] = "done"
             THEN /\ task' = [task EXCEPT !["engine"] = "done"]
                  /\ chan' = Close(d, EngineOut)
             ELSE /\ task' = task
                  /\ chan' = TrySend(IF fires THEN Push(d, "advice", n) ELSE d, "snapshot", n)
    /\ UNCHANGED <<lines_sent, snap_cell, ring, ring_hist, startVars, engineVars,
                 tailerVars>>

\* engine::run select!: event_rx.recv() returned None
EngineEventsClosed ==
    /\ task["engine"] = "running"
    /\ Drained("event")
    /\ task' = [task EXCEPT !["engine"] = "done"]
    /\ chan' = Close(chan, EngineOut)
    /\ UNCHANGED <<flowVars, startVars, engineVars,
                 tailerVars>>

\* db.rs writer thread: rx.recv() returned a command, which is executed
DbWriterRecv ==
    /\ chan["db"].q # <<>>
    /\ chan' = Pop(chan, "db")
    /\ UNCHANGED <<task, flowVars, startVars, engineVars,
                 tailerVars>>

\* ipc::run select!: one of the three queues returned Some; advice goes to
\* the ring, a snapshot overwrites the cell
FanoutRecv(c) ==
    /\ task["fanout"] = "running"
    /\ chan[c].q # <<>>
    /\ chan' = Pop(chan, c)
    /\ \E m \in {Head(chan[c].q)} :
          /\ ring' = IF c = "advice" THEN RingPush(ring, m) ELSE ring
          /\ ring_hist' = IF c = "advice" THEN Append(ring_hist, m) ELSE ring_hist
          /\ snap_cell' = IF c = "snapshot" THEN Some(m) ELSE snap_cell
    /\ UNCHANGED <<task, lines_sent, processed, startVars, engineVars,
                 tailerVars>>

\* ipc::run select!: every branch disabled, else => break
FanoutAllClosed ==
    /\ task["fanout"] = "running"
    /\ \A c \in EngineOut : Drained(c)
    /\ task' = [task EXCEPT !["fanout"] = "done"]
    /\ UNCHANGED <<chan, flowVars, startVars, engineVars,
                 tailerVars>>

\* a polling consumer drains the ring: it takes every item and leaves it empty
DrainAdvice ==
    /\ ring # <<>>
    /\ ring' = <<>>
    /\ ring_hist' = <<>>
    /\ UNCHANGED <<chan, task, lines_sent, processed, snap_cell, startVars, engineVars,
                 tailerVars>>

InitPipeline ==
    /\ EngineInit
    /\ feed = [events |-> {}, identities |-> {}, configs |-> {}]
    /\ db_tracked = FALSE
    /\ dir_ok = TRUE
    /\ TailerNotStarted
    /\ PipelineStarted

ParserStep ==
    \/ ParserRecv
    \/ ParserLinesClosed

EngineStep ==
    \/ EngineRecvIdentity
    \/ EngineRecvConfig
    \/ \E closes \in BOOLEAN : EngineRecvEvent(closes)
    \/ EngineEventsClosed

FanoutStep ==
    \/ \E c \in EngineOut : FanoutRecv(c)
    \/ FanoutAllClosed

NextPipeline ==
    \/ \E parses \in BOOLEAN, fires \in BOOLEAN : LineSend(parses, fires)
    \/ DrainAdvice
    \/ \E c \in Producers : ProducerSend(c)
    \/ \E c \in Producers : ProducerClose(c)
    \/ ParserStep
    \/ EngineStep
    \/ FanoutStep
    \/ DbWriterRecv

\* the tasks run whenever they can; select! picks among its ready branches
\* at random, so a branch that stays ready is taken
SpecPipeline ==
    /\ InitPipeline
    /\ [][NextPipeline]_vars
    /\ WF_vars(ParserStep)
    /\ WF_vars(EngineRecvIdentity)
    /\ WF_vars(EngineRecvConfig)
    /\ WF_vars(\E closes \in BOOLEAN : EngineRecvEvent(closes))
    /\ WF_vars(EngineEventsClosed)
    /\ WF_vars(FanoutStep)
    /\ WF_vars(DbWriterRecv)

\* the path of a log line alone: the tailer's sends, the three tasks and the
\* store writer, all of which run whenever they can
NextFlow ==
    \/ \E parses \in BOOLEAN, fires \in BOOLEAN : LineSend(parses, fires)
    \/ ProducerClose("line")
    \/ ParserStep
    \/ \E closes \in BOOLEAN : EngineRecvEvent(closes)
    \/ EngineEventsClosed
    \/ FanoutStep
    \/ DbWriterRecv

SpecFlow ==
    /\ InitPipeline
    /\ [][NextFlow]_vars
    /\ WF_vars(ParserStep)
    /\ WF_vars(\E closes \in BOOLEAN : EngineRecvEvent(closes))
    /\ WF_vars(EngineEventsClosed)
    /\ WF_vars(FanoutStep)
    /\ WF_vars(DbWriterRecv)

-----------------------------------------------------------------------------
(* lib.rs: starting the pipeline.  try_start_pipeline is called by setup    *)
(* and by every save_config command; the calls run on different threads and *)
(* meet at the config file, the running flag and the bundle.                *)

MaxSaves == 2       \* save_config commands one frontend caller issues

CompareExchange_always_wins(flag) == [won |-> TRUE, flag |-> TRUE]

\* ready.compare_exchange(false, true, SeqCst, SeqCst)
CompareExchange(flag) == [won |-> ~flag, flag |-> TRUE]

Goto(c, pc) == [call EXCEPT ![c].pc = pc]

\* setup: try_start_pipeline is called if the config loaded at launch has a path
SetupCheck ==
    /\ call["setup"].pc = "idle"
    /\ call' = Goto("setup", IF call["setup"].boot_path THEN "load" ELSE "returned")
    /\ UNCHANGED <<cfg_path_set, ready, bundle, spawns, start_hist, chan, task, flowVars,
                   engineVars, tailerVars>>

\* save_config: config::save writes the file (or fails and the command
\* returns), then try_start_pipeline is called
SaveConfig(c, path_set, save_ok) ==
    /\ c # "setup"
    /\ call[c].pc \in {"idle", "returned"}
    /\ call[c].saves < MaxSaves
    /\ cfg_path_set' = IF save_ok THEN path_set ELSE cfg_path_set
    /\ call' = [call EXCEPT ![c].pc = IF save_ok THEN "load" ELSE "returned",
                            ![c].saves = @ + 1]
    /\ UNCHANGED <<ready, bundle, spawns, start_hist, chan, task, flowVars,
                   engineVars, tailerVars>>

\* try_start_pipeline: the config is read again from disk; the call returns
\* if that fails or wow_log_path is empty
LoadConfig(c, load_ok) ==
    /\ call[c].pc = "load"
    /\ call' = Goto(c, IF load_ok /\ cfg_path_set THEN "cas" ELSE "returned")
    /\ start_hist' = IF load_ok /\ ~cfg_path_set
                     THEN [start_hist EXCEPT !.skipped = TRUE] ELSE start_hist
    /\ UNCHANGED <<cfg_path_set, ready, bundle, spawns, chan, task, flowVars,
                   engineVars, tailerVars>>

\* try_start_pipeline: the compare-and-swap on the running flag
MarkRunning(c) ==
    /\ call[c].pc = "cas"
    /\ \E r \in {CompareExchange(ready)} :
          /\ ready' = r.flag
          /\ call' = Goto(c, IF r.won THEN "take" ELSE "returned")
          /\ start_hist' = IF r.won THEN start_hist ELSE [start_hist EXCEPT !.lost = TRUE]
    /\ UNCHANGED <<cfg_path_set, bundle, spawns, chan, task, flowVars,
                   engineVars, tailerVars>>

\* try_start_pipeline: guard.take() under the bundle's mutex
TakeBundle(c) ==
    /\ call[c].pc = "take"
    /\ bundle' = FALSE
    /\ call' = Goto(c, IF bundle THEN "spawn" ELSE "returned")
    /\ start_hist' = IF bundle THEN start_hist
                     ELSE [start_hist EXCEPT !.bundle_missing = TRUE]
    /\ UNCHANGED <<cfg_path_set, ready, spawns, chan, task, flowVars,
                   engineVars, tailerVars>>

\* try_start_pipeline: the five spawns
SpawnTasks(c) ==
    /\ call[c].pc = "spawn"
    /\ spawns' = spawns + 1
    /\ task' = [t \in Tasks |-> "running"]
    /\ call' = Goto(c, "returned")
    /\ UNCHANGED <<cfg_path_set, ready, bundle, start_hist, chan, flowVars,
                   engineVars, tailerVars>>

\* setup has built the channels and the bundle and registered the flag; the
\* config file holds a path or not
InitStart ==
    /\ EngineInit
    /\ feed = [events |-> {}, identities |-> {}, configs |-> {}]
    /\ db_tracked = FALSE
    /\ dir_ok = TRUE
    /\ TailerNotStarted
    /\ chan = [c \in Channels |-> [open |-> TRUE, q |-> <<>>]]
    /\ task = [t \in Tasks |-> "unspawned"]
    /\ lines_sent = <<>>
    /\ processed = <<>>
    /\ snap_cell = None
    /\ ring = <<>>
    /\ ring_hist = <<>>
    /\ cfg_path_set \in BOOLEAN
    /\ ready = FALSE
    /\ bundle = TRUE
    /\ spawns = 0
    /\ call = [c \in Callers |-> [pc |-> "idle", saves |-> 0, boot_path |-> cfg_path_set]]
    /\ start_hist = [skipped |-> FALSE, lost |-> FALSE, bundle_missing |-> FALSE]

NextStart ==
    \/ SetupCheck
    \/ \E c \in Callers, path_set \in BOOLEAN, save_ok \in BOOLEAN :
          SaveConfig(c, path_set, save_ok)
    \/ \E c \in Callers, load_ok \in BOOLEAN : LoadConfig(c, load_ok)
    \/ \E c \in Callers : MarkRunning(c)
    \/ \E c \in Callers : TakeBundle(c)
    \/ \E c \in Callers : SpawnTasks(c)

SpecStart == InitStart /\ [][NextStart]_vars

----------------------------------------------------------------------------
(* Properties *)

LastEvent == Get(ev)
SentKeys == { sent[i].key : i \in 1..Len(sent) }
SuppressedKeys == { suppressed[i].key : i \in 1..Len(suppressed) }
CoachedGuid == combat.player_guid

\* C1: current_pull is present iff in_combat, and at most one pull is open:
\* the Option holds at most one pull and every pull in pull_history is closed.
C1_CurrentPullIffInCombat ==
    /\ IsSome(combat.current_pull) <=> combat.in_combat
    /\ Len(combat.current_pull) <= 1
    /\ \A i \in 1..Len(combat.pull_history) :
          /\ IsSome(combat.pull_history[i].end_ms)
          /\ IsSome(combat.pull_history[i].outcome)
    /\ IsSome(combat.current_pull) =>
          /\ Get(combat.current_pull).end_ms = None
          /\ Get(combat.current_pull).outcome = None

\* a second pull is open after a first one was closed
C1_Witness ==
    /\ combat.in_combat
    /\ Len(combat.pull_history) >= 1
    /\ IsSome(combat.current_pull)

\* the cooldowns the specification states, per severity
StatedCooldown(severity) ==
    CASE severity = "Bad"  -> 8000
      [] severity = "Warn" -> 12000
      [] severity = "Good" -> 20000

\* C2: two firings of one key delivered in the same pull at t1 < t2 are at
\* least cooldown(severity) apart, for non-monotonic timestamps too.
C2_DedupSpacing ==
    \A f1 \in pull_firings, f2 \in pull_firings :
        (f1.key = f2.key /\ f1.ts < f2.ts) => f2.ts - f1.ts >= StatedCooldown(f2.severity)

\* one key fired twice in the open pull, and the log clock has gone backwards since
C2_Witness ==
    /\ combat.in_combat
    /\ \E f1 \in pull_firings, f2 \in pull_firings : f1.key = f2.key /\ f1.ts < f2.ts

\* C3: in a newly opened pull no candidate is suppressed on account of a
\* firing that happened before the pull opened: a candidate suppressed on a
\* dedup entry older than the pull would have been suppressed on an empty map too.
C3_FreshNextPull ==
    combat.in_combat =>
        \A i \in 1..Len(suppressed) :
            suppressed[i].key \in stale_keys =>
                ~can_fire(EmptyMap, suppressed[i].key, suppressed[i].severity,
                          suppressed[i].timestamp_ms)

\* the advice scenario S1 expects
IsAvoidableRepeat(a, hits) ==
    a.key = <<"avoidable_repeat">> /\ a.severity = "Bad" /\ a.kv.hits = hits

\* C4, scenario S1: ENCOUNTER_START at 0, then SpellDamage of spell 999 on the
\* coached player at 500 and 1500, gives one avoidable_repeat (bad, hits=2) on
\* the second hit.
C4_S1 ==
    ( /\ IsSome(ev)
      /\ LastEvent = SpellDamage(1500, PlayerA, SpellFire, 1000)
      /\ CoachedGuid = Some(PlayerA)
      /\ IsSome(combat.current_pull)
      /\ Get(combat.current_pull).start_ms = 0
      /\ IsSome(combat.encounter_name)
      /\ Has(combat.avoidable.hit_timestamps, SpellFire)
      /\ combat.avoidable.hit_timestamps[SpellFire] = <<500, 1500>> )
    => (Len(sent) = 1 /\ IsAvoidableRepeat(sent[1], 2))

\* C4, in general: the hit that brings a spell's count to 2 in a pull emits
\* avoidable_repeat whatever the timestamps.
C4_SecondHitFires ==
    ( /\ IsSome(ev)
      /\ LastEvent.kind = "SpellDamage"
      /\ IsPlayer(LastEvent.dest_guid, CoachedGuid)
      /\ combat.in_combat
      /\ stale_keys = {}
      /\ hit_count(combat.avoidable, LastEvent.spell_id) = 2 )
    => \E i \in 1..Len(sent) : IsAvoidableRepeat(sent[i], 2)

\* C4: scenario S1 and its generalisation
C4_AvoidableRepeatOnSecondHit == C4_S1 /\ C4_SecondHitFires

\* C5, scenario S3: major_cds = [100], pull opened at 0, coached casts of 100
\* at 9000 and 20000: cooldown_drift is emitted for the cast at 9000 and not
\* for the cast at 20000.
C5_S3DriftOnlyOnFirstUse ==
    ( /\ IsSome(combat.current_pull)
      /\ Get(combat.current_pull).start_ms = 0
      /\ SpellMajorCd \in eng.effective_major_cds
      /\ Len(pull_casts) >= 1
      /\ pull_casts[1].spell_id = SpellMajorCd
      /\ pull_casts[1].ts = 9000 )
    => /\ pull_casts[1].drift
       /\ (Len(pull_casts) = 2 /\ pull_casts[2].spell_id = SpellMajorCd
           /\ pull_casts[2].ts = 20000) => ~pull_casts[2].drift

\* C6: cooldown_drift is emitted at most once per spell per pull, only for the
\* first coached cast of the spell in the pull.
C6_DriftOncePerSpellPerPull ==
    \A i \in 1..Len(pull_casts), j \in 1..Len(pull_casts) :
        (i < j /\ pull_casts[i].spell_id = pull_casts[j].spell_id) => ~pull_casts[j].drift

\* C7, scenario S4: a coached interrupt of 555 at 2000 yields one
\* interrupt_success_555 (good); a later enemy cast of 555 in combat at
\* intensity >= 3, not deduplicated against an earlier firing, yields
\* interrupt_miss_555 (bad).
C7_S4InterruptSuccessThenMiss ==
    /\ ( /\ IsSome(ev)
         /\ LastEvent = SpellInterrupted(2000, PlayerA, SpellKick)
         /\ CoachedGuid = Some(PlayerA)
         /\ eng.config.intensity >= 3
         /\ ~Has(eng.advice_last_ms, <<"interrupt_success", SpellKick>>)
            \/ <<"interrupt_success", SpellKick>> \notin SuppressedKeys )
       => /\ Len(sent) = 1
          /\ sent[1].key = <<"interrupt_success", SpellKick>>
          /\ sent[1].severity = "Good"
    /\ ( /\ IsSome(ev)
         /\ LastEvent.kind = "SpellCastSuccess"
         /\ StartsWithCreature(LastEvent.source_guid)
         /\ LastEvent.spell_id = SpellKick
         /\ SpellKick \in combat.interrupts.interruptible_spells
         /\ combat.in_combat
         /\ eng.config.intensity >= 3
         /\ ~Has(eng.advice_last_ms, <<"interrupt_miss", SpellKick>>)
            \/ <<"interrupt_miss", SpellKick>> \notin SuppressedKeys )
       => \E i \in 1..Len(sent) :
             sent[i].key = <<"interrupt_miss", SpellKick>> /\ sent[i].severity = "Bad"

\* the intensity floors the specification states, by the rule's key prefix
StatedFloor(prefix) ==
    CASE prefix = "gcd_gap"           -> 3
      [] prefix = "interrupt_miss"    -> 3
      [] prefix = "interrupt_success" -> 2
      [] prefix = "am_under_pressure" -> 2
      [] prefix = "avoidable_repeat"  -> 1
      [] prefix = "cooldown_drift"    -> 1

\* C8: no advice of a rule is emitted while the configured intensity is
\* below the rule's floor.
C8_IntensityGate ==
    \A i \in 1..Len(sent) : eng.config.intensity >= StatedFloor(sent[i].key[1])

\* a coached cast after a gap over the 2.5 s threshold, late enough to pass
\* dedup, handled at intensity 2
C8_Witness ==
    /\ IsSome(ev)
    /\ LastEvent.kind = "SpellCastSuccess"
    /\ IsPlayer(LastEvent.source_guid, CoachedGuid)
    /\ combat.gcd.current_gap_ms >= 2500
    /\ LastEvent.timestamp_ms >= 12000
    /\ eng.config.intensity = 2
    /\ suppressed = <<>>

\* C9: after a coached SpellCastSuccess in combat, current_gap_ms is ts minus
\* the previous coached cast of the pull (saturating), or 0 for the first.
C9_GcdGap ==
    ( /\ IsSome(ev)
      /\ LastEvent.kind = "SpellCastSuccess"
      /\ IsPlayer(LastEvent.source_guid, CoachedGuid)
      /\ combat.in_combat )
    => combat.gcd.current_gap_ms =
          IF Len(pull_casts) >= 2
          THEN SatSub(pull_casts[Len(pull_casts)].ts, pull_casts[Len(pull_casts) - 1].ts)
          ELSE 0

\* the first coached cast of a second pull, after a coached cast in the first
C9_Witness ==
    /\ IsSome(ev)
    /\ LastEvent.kind = "SpellCastSuccess"
    /\ IsPlayer(LastEvent.source_guid, CoachedGuid)
    /\ combat.in_combat
    /\ Len(combat.pull_history) >= 1
    /\ Len(pull_casts) = 1
    /\ LastEvent.timestamp_ms > 0

\* C10: hit_count(spell) is the number of SpellDamage events on the coached
\* player that belong to the pull; hits taken outside a pull are not counted.
C10_HitCountIsPerPull ==
    \A id \in {SpellFire, SpellKick, SpellMajorCd} :
        hit_count(combat.avoidable, id) = IF Has(pull_hits, id) THEN pull_hits[id] ELSE 0

\* C11: the learned-interruptible set only grows: no event, identity update,
\* config update, pull opening or pull closing removes a recorded spell id.
C11_InterruptsMonotonic ==
    [][combat.interrupts.interruptible_spells
          \subseteq combat'.interrupts.interruptible_spells]_vars

\* a pull has been opened after the spell was recorded, nothing interrupted
\* in it yet, and the spell is still known
C11_Witness ==
    /\ combat.in_combat
    /\ combat.interrupt_count = 0
    /\ SpellKick \in combat.interrupts.interruptible_spells

DeliveredIdx == 1..(2 * MaxSteps)

\* the advice_events table holds the row of a delivered advice
Persisted(d) ==
    /\ IsSome(d.pull_id)
    /\ \E i \in 1..Len(db_advice_rows) :
          /\ db_advice_rows[i].rule_key = d.key
          /\ db_advice_rows[i].fired_at = d.fired_at
          /\ db_advice_rows[i].pull_id = Get(d.pull_id)

IsInsertPullReply(c, id) == c.cmd = "InsertPull" /\ c.reply = Some(id)
IsEndPull(c, id) == c.cmd = "EndPull" /\ c.pull_id = id

\* C13: in the store's command stream every InsertAdvice(pull_id) comes
\* after the successful InsertPull that returned pull_id and not after the
\* EndPull of that pull, and every persisted advice row names a pull row.
C13_AdviceReferencesOpenPull ==
    /\ \A i \in 1..Len(db_log) :
          db_log[i].cmd = "InsertAdvice" =>
             /\ \E j \in 1..(i - 1) : IsInsertPullReply(db_log[j], db_log[i].pull_id)
             /\ \A k \in 1..i : ~IsEndPull(db_log[k], db_log[i].pull_id)
    /\ \A i \in 1..Len(db_advice_rows) : db_advice_rows[i].pull_id \in 1..db_pull_rows
    /\ \A i \in 1..Len(db_out) :
          db_out[i].cmd = "InsertAdvice" =>
             combat.in_combat /\ eng.current_pull_id = Some(db_out[i].pull_id)

\* a pull was stored, an advice row was written for it, and the pull was ended
C13_Witness ==
    /\ \E i \in 1..Len(db_log), j \in 1..Len(db_log), k \in 1..Len(db_log) :
          /\ i < j /\ j < k
          /\ db_log[j].cmd = "InsertAdvice"
          /\ IsInsertPullReply(db_log[i], db_log[j].pull_id)
          /\ IsEndPull(db_log[k], db_log[j].pull_id)
    /\ db_advice_rows # <<>>

\* the byte offsets of a file that a sent line was read from
Bytes(e) == (e.off + 1)..(e.off + Len(e.text))

\* the tailer has read its active file up to the end and has nothing to handle
CaughtUp ==
    /\ tailer.pc = "wait"
    /\ fs_q = <<>>
    /\ IsSome(tailer.active_file)
    /\ tailer.position = Len(files[Get(tailer.active_file)].content)

\* C14: of a log that has only been appended to, no byte is sent twice, and
\* once the tailer has caught up with it every byte of its lines has been sent.
C14_EachByteDeliveredOnce ==
    LogA \notin tail_hist.rewritten =>
        /\ \A i \in 1..Len(line_q), j \in 1..Len(line_q) :
              i < j => Bytes(line_q[i]) \cap Bytes(line_q[j]) = {}
        /\ CaughtUp =>
              \A k \in 1..Len(files[LogA].content) :
                 files[LogA].content[k] # NL =>
                    \E i \in 1..Len(line_q) : k \in Bytes(line_q[i])

\* a sent line stands in its file between two line ends
IsCompleteLine(e, content) ==
    /\ IF e.off = 0 THEN TRUE ELSE content[e.off] = NL
    /\ IF e.off + Len(e.text) < Len(content)
       THEN content[e.off + Len(e.text) + 1] = NL
       ELSE FALSE

\* C15: every line the tailer sends is a complete line of the file, from the
\* start of the line to its terminator; an unterminated fragment is not sent
\* and a line written in two pieces is not sent in two pieces.
C15_OnlyCompleteLines ==
    \A i \in 1..Len(line_q) :
        line_q[i].file \notin tail_hist.rewritten =>
            IsCompleteLine(line_q[i], files[line_q[i].file].content)

\* C16: once the tailer has gone from a log to a newer one and sent lines of
\* it, no line of the earlier log that was already sent is sent again.
C16_NoReemitAfterSwitch ==
    \A i \in 1..Len(line_q), k \in 1..Len(line_q), j \in 1..Len(line_q) :
        (/\ i < k /\ k < j
         /\ line_q[i].file = line_q[j].file
         /\ line_q[k].file # line_q[i].file)
        => Bytes(line_q[i]) \cap Bytes(line_q[j]) = {}

\* the terminated lines of a content, by offset
TerminatedLines(content) ==
    { [off |-> a, text |-> SubSeq(content, a + 1, b)] :
        <<a, b>> \in { p \in (0..Len(content)) \X (1..Len(content)) :
                         /\ p[1] < p[2]
                         /\ p[2] < Len(content)
                         /\ content[p[2] + 1] = NL
                         /\ IF p[1] = 0 THEN TRUE ELSE content[p[1]] = NL
                         /\ \A k \in (p[1] + 1)..p[2] : content[k] # NL } }

C18_NoIoFailureTerminates == tailer.pc # "failed"

\* C19: while the tailer runs, the connection status is emitted again and again.
C19_StatusKeepsRecurring == []<>(conn.now \/ tailer.pc = "failed")

\* C20: a task whose inbound queue has been closed terminates: the engine
\* after its event, identity or config queue is closed, the parser after its
\* line queue is closed, the fan-out after its advice, snapshot or debrief
\* queue is closed.
C20_ClosedInboundTerminatesTask ==
    /\ \A c \in {"event", "identity", "config"} :
          (~chan[c].open) ~> (task["engine"] = "done")
    /\ (~chan["line"].open) ~> (task["parser"] = "done")
    /\ \A c \in EngineOut :
          (~chan[c].open) ~> (task["fanout"] = "done")

NoRepeat(seq) == \A i \in 1..Len(seq), j \in 1..Len(seq) : i # j => seq[i] # seq[j]

\* C24: a step hands a debrief to debrief_tx exactly when it takes the engine
\* from in combat to out of combat; the debrief carries the number of the
\* pull that just closed; no two debriefs of a session carry the same number.
C24_DebriefOncePerPullClose ==
    /\ [][/\ IsSome(debrief_out') <=> (combat.in_combat /\ ~combat'.in_combat)
          /\ IsSome(debrief_out') =>
                /\ IsSome(combat.current_pull)
                /\ Get(debrief_out').pull_number = Get(combat.current_pull).pull_number
                /\ debrief_log' = Append(debrief_log, Get(debrief_out').pull_number)
          /\ ~IsSome(debrief_out') => debrief_log' = debrief_log]_vars
    /\ [](NoRepeat(debrief_log))

\* two pulls have been closed, each with its debrief
C24_Witness ==
    /\ Len(debrief_log) = 2
    /\ IsSome(debrief_out)
    /\ Get(debrief_out).pull_number = 2

\* C25: an EncounterEnd that arrives while a pull is open closes it with
\* outcome kill if success, else wipe; the debrief carries that outcome and
\* the time from the pull's start to the EncounterEnd, and an EndPull with
\* the same outcome is issued for the pull's row.
C25_S6EncounterEndClosesPull ==
    [][(IsSome(ev') /\ Get(ev').kind = "EncounterEnd" /\ combat.in_combat) =>
        LET end_ts  == timestamp_ms(Get(ev'))
            start   == Get(combat.current_pull).start_ms
            outcome == IF Get(ev').success THEN "kill" ELSE "wipe"
        IN  /\ ~combat'.in_combat
            /\ ~IsSome(combat'.current_pull)
            /\ IsSome(debrief_out')
            /\ Get(debrief_out').outcome = outcome
            /\ end_ts >= start => Get(debrief_out').pull_elapsed_ms = end_ts - start
            /\ IsSome(eng.current_pull_id) =>
                  \E i \in 1..Len(db_out') :
                     /\ db_out'[i].cmd = "EndPull"
                     /\ db_out'[i].pull_id = Get(eng.current_pull_id)
                     /\ db_out'[i].outcome = outcome
                     /\ db_out'[i].ended_at = end_ts]_vars

\* a pull started at 0 was ended as a kill by the EncounterEnd at 20000
C25_Witness ==
    /\ IsSome(ev) /\ Get(ev).kind = "EncounterEnd" /\ Get(ev).success
    /\ IsSome(debrief_out)
    /\ Get(debrief_out).outcome = "kill"
    /\ Get(debrief_out).pull_elapsed_ms = 20000
    /\ \E i \in 1..Len(db_out) : db_out[i].cmd = "EndPull" /\ db_out[i].outcome = "kill"

NoCommand(cmds, name) == \A i \in 1..Len(cmds) : cmds[i].cmd # name

\* C29: an EncounterStart or SpellCastSuccess that arrives while a pull is
\* open opens no pull: the open pull, the pull history and the engine's pull
\* number stay as they are, the per-pull trackers keep what they hold, and
\* no InsertPull is issued.
C29_OpenWhileOpenIsNoOp ==
    [][(IsSome(ev') /\ Get(ev').kind \in {"EncounterStart", "SpellCastSuccess"}
        /\ combat.in_combat) =>
        /\ combat'.in_combat
        /\ combat'.current_pull = combat.current_pull
        /\ combat'.pull_history = combat.pull_history
        /\ eng'.pull_number = eng.pull_number
        /\ eng'.current_pull_id = eng.current_pull_id
        /\ db_pull_rows' = db_pull_rows
        /\ NoCommand(db_out', "InsertPull")
        /\ combat'.avoidable = combat.avoidable
        /\ combat'.damage_taken = combat.damage_taken
        /\ combat'.interrupt_count = combat.interrupt_count
        /\ combat'.interrupts = combat.interrupts
        /\ DOMAIN combat.cooldowns.last_used \subseteq DOMAIN combat'.cooldowns.last_used
        /\ IsSome(combat.gcd.last_cast_ms) => IsSome(combat'.gcd.last_cast_ms)
        /\ eng'.pull_advice_count >= eng.pull_advice_count
        /\ eng'.pull_gcd_gap_count >= eng.pull_gcd_gap_count]_vars

\* a cast arrived in an open pull that already held a hit and a cast, and
\* the pull is still the first one
C29_Witness ==
    /\ IsSome(ev) /\ Get(ev).kind = "SpellCastSuccess"
    /\ combat.in_combat
    /\ eng.pull_number = 1
    /\ Len(pull_casts) >= 2
    /\ total_hits(combat.avoidable) > 0

\* C30: an EncounterEnd or UnitDied that arrives while no pull is open
\* closes nothing: the pull history, the open pull and the dedup map stay
\* as they are, and neither a debrief nor an EndPull is produced.
C30_CloseWhileClosedIsNoOp ==
    [][(IsSome(ev') /\ Get(ev').kind \in {"EncounterEnd", "UnitDied"}
        /\ ~combat.in_combat) =>
        /\ ~combat'.in_combat
        /\ combat'.pull_history = combat.pull_history
        /\ combat'.current_pull = combat.current_pull
        /\ eng'.advice_last_ms = eng.advice_last_ms
        /\ ~IsSome(debrief_out')
        /\ NoCommand(db_out', "EndPull")]_vars

\* an EncounterEnd arrived while no pull was open and the dedup map held
\* an entry
C30_Witness ==
    /\ IsSome(ev) /\ Get(ev).kind = "EncounterEnd"
    /\ ~combat.in_combat
    /\ ~IsSome(debrief_out)
    /\ eng.advice_last_ms # EmptyMap

-----------------------------------------------------------------------------
(* The store on the engine's path.                                          *)

FireAndForget == {"UpdateSession", "EndPull", "InsertAdvice"}

\* C26: UpdateSession, EndPull and InsertAdvice never make the engine wait,
\* even while the writer is stalled and its channel is full: the engine is
\* never held in the send of one of these commands.
C26_FireAndForgetNeverBlocks ==
    \A i \in 1..Len(db_pending) : db_pending[i].cmd \notin FireAndForget

\* the engine without anything the store gave it
Unstored(e) == [e EXCEPT !.current_pull_id = None, !.session_id = -1]

SameButStore(x, y) ==
    /\ x.combat = y.combat
    /\ Unstored(x.eng) = Unstored(y.eng)
    /\ x.sent = y.sent
    /\ x.suppressed = y.suppressed
    /\ x.debrief = y.debrief
    /\ x.snap = y.snap
    /\ x.opened = y.opened
    /\ x.closed = y.closed

\* C27: a failed InsertSession or InsertPull is never fatal: whatever event
\* comes next, the engine without session and pull row ids, its InsertPull
\* failing, handles it exactly as the engine whose inserts succeed does: same
\* combat state, same advice to the advice queue, same debrief and snapshot;
\* only the rows are missing.
C27_PersistenceErrorsNotFatal ==
    \A event \in feed.events :
        SameButStore(HandleEvent(combat, eng, db_pull_rows, event, TRUE),
                     HandleEvent(combat, Unstored(eng), db_pull_rows, event, FALSE))

\* advice delivered in a pull that has neither session row nor pull row
C27_Witness ==
    /\ db_tracked
    /\ eng.session_id < 0
    /\ combat.in_combat
    /\ ~IsSome(eng.current_pull_id)
    /\ sent # <<>>
    /\ db_out = <<>> /\ db_log # <<>>


-----------------------------------------------------------------------------
(* The flow of lines, events, snapshots and advice through the queues.      *)

\* the lines parse_line makes an event of, by their number
ParsedNumbers(lines) ==
    LET parsed == SelectSeq(lines, LAMBDA l : l.parses)
    IN  [i \in 1..Len(parsed) |-> parsed[i].n]

\* C21: events are processed in arrival order and none is lost: the events
\* the engine has processed, then the events waiting in the event queue, then
\* the parsing lines waiting in the line queue, are exactly the lines the
\* tailer sent that parse to an event, in the order they were sent; lines
\* that do not parse vanish and the parser goes on.
C21_EventsInArrivalOrderNoLoss ==
    processed \o chan["event"].q \o ParsedNumbers(chan["line"].q)
        = ParsedNumbers(lines_sent)

\* a line that does not parse was followed by two lines that do, and both
\* events have been processed, in that order
C21_Witness ==
    /\ Len(lines_sent) = MaxLines
    /\ ~lines_sent[1].parses
    /\ processed = <<2, 3>>
    /\ task["parser"] = "running"

\* C22: once the engine has processed its last event and the fan-out has
\* drained the snapshot queue, the snapshot cell holds the snapshot of the
\* most recently processed event.
C22_CellHoldsLatestSnapshot ==
    (Drained("event") /\ chan["snapshot"].q = <<>> /\ processed # <<>>)
        => snap_cell = Some(processed[Len(processed)])

\* the last k items of a sequence
LastN(seq, k) == SubSeq(seq, Len(seq) - Min(Len(seq), k) + 1, Len(seq))

-----------------------------------------------------------------------------
(* Starting the pipeline.                                                   *)

\* C28: over every interleaving of try_start_pipeline calls the tasks are
\* spawned at most once; the call that wins the running flag finds the
\* bundle; while the flag is clear the bundle is there and nothing was
\* spawned, so a later call can still start the pipeline; and a call that
\* finds wow_log_path empty touches neither flag nor bundle and spawns nothing.
C28_PipelineStartsAtMostOnce ==
    /\ [](spawns <= 1)
    /\ [](~start_hist.bundle_missing)
    /\ [](~ready => (bundle /\ spawns = 0))
    /\ [][\A c \in Callers :
            (call[c].pc = "load" /\ call'[c].pc = "returned")
                => (ready' = ready /\ bundle' = bundle /\ spawns' = spawns)]_vars

\* the pipeline was started once, after one call was skipped for its empty
\* path and while another call lost the flag
C28_Witness ==
    /\ spawns = 1
    /\ start_hist.skipped
    /\ start_hist.lost
    /\ \A t \in Tasks : task[t] = "running"


-----------------------------------------------------------------------------
(* Pull boundaries, trackers and inference.                                  *)

\* C31: a UnitDied in an open pull closes it exactly when no encounter is
\* active, as a kill if the dead unit is a creature and as a wipe otherwise;
\* while an encounter is active a pull is closed by EncounterEnd only.
C31_UnitDiedClosesOnlyOutsideEncounter ==
    [][/\ (IsSome(ev') /\ Get(ev').kind = "UnitDied" /\ combat.in_combat) =>
            IF IsSome(combat.encounter_name)
            THEN /\ combat'.in_combat
                 /\ combat'.current_pull = combat.current_pull
                 /\ combat'.pull_history = combat.pull_history
                 /\ ~IsSome(debrief_out')
            ELSE LET outcome == IF StartsWithCreature(Get(ev').dest_guid)
                                THEN "kill" ELSE "wipe"
                 IN  /\ ~combat'.in_combat
                     /\ Len(combat'.pull_history) = Len(combat.pull_history) + 1
                     /\ IsSome(debrief_out')
                     /\ Get(debrief_out').outcome = outcome
       /\ (combat.in_combat /\ IsSome(combat.encounter_name) /\ ~combat'.in_combat) =>
            (IsSome(ev') /\ Get(ev').kind = "EncounterEnd")]_vars

\* a unit died during an encounter and the pull went on
C31_Witness ==
    /\ IsSome(ev) /\ Get(ev).kind = "UnitDied"
    /\ combat.in_combat
    /\ IsSome(combat.encounter_name)
    /\ IsSome(combat.current_pull)


\* C32: a step that opens a pull leaves the per-pull trackers empty but for
\* what the opening event itself records (the coached player's cast):
\* avoidable hits, damage taken and interrupt_count are empty or zero, the
\* cooldown map and the GCD tracker hold at most the opening cast; the
\* learned-interruptible set and pull_history are untouched, and so are a
\* known player_guid and, unless the event is an EncounterStart, the
\* encounter name.
C32_StartPullResetsPerPullTrackers ==
    [][(~combat.in_combat /\ combat'.in_combat) =>
        LET e == Get(ev')
            own_cast == e.kind = "SpellCastSuccess"
                        /\ IsPlayer(e.source_guid, combat'.player_guid)
        IN  /\ combat'.avoidable = [hit_counts |-> EmptyMap, hit_timestamps |-> EmptyMap]
            /\ combat'.damage_taken.events = <<>>
            /\ combat'.interrupt_count = 0
            /\ combat'.cooldowns.last_used =
                  IF own_cast THEN Put(EmptyMap, e.spell_id, timestamp_ms(e)) ELSE EmptyMap
            /\ combat'.gcd = [last_cast_ms |-> IF own_cast THEN Some(timestamp_ms(e)) ELSE None,
                              current_gap_ms |-> 0]
            /\ combat'.interrupts = combat.interrupts
            /\ combat'.pull_history = combat.pull_history
            /\ IsSome(combat.player_guid) => combat'.player_guid = combat.player_guid
            /\ e.kind # "EncounterStart" => combat'.encounter_name = combat.encounter_name]_vars

\* a pull was opened after the coached player had taken a hit and made an
\* interrupt between pulls: the hit and the interrupt count are gone, the
\* learned spell is still there
C32_Witness ==
    /\ IsSome(ev) /\ Get(ev).kind = "EncounterStart"
    /\ combat.in_combat
    /\ combat.interrupts.interruptible_spells # {}
    /\ combat.interrupt_count = 0
    /\ total_hits(combat.avoidable) = 0
    /\ combat.damage_taken.events = <<>>
    /\ IsSome(combat.player_guid)

\* the place of a rule in the order its candidates are checked
RuleRank(key) ==
    CASE key[1] = "interrupt_miss"    -> 1
      [] key[1] = "avoidable_repeat"  -> 2
      [] key[1] = "gcd_gap"           -> 3
      [] key[1] = "cooldown_drift"    -> 4
      [] key[1] = "interrupt_success" -> 5
      [] key[1] = "am_under_pressure" -> 6

InRuleOrder(items) ==
    \A i \in 1..Len(items), j \in 1..Len(items) :
        i < j => RuleRank(items[i].key) <= RuleRank(items[j].key)

\* C33: the advice of one event is fired, and suppressed, in the order
\* interrupt_miss, avoidable_repeat, gcd_gap, cooldown_drift,
\* interrupt_success, defensive_timing; an item that fired is in the dedup
\* map at once, so no key fires twice in one event and the same items offered
\* again in the same event are all suppressed; the advice an event fires is
\* delivered during that event's step, so advice reaches the queue in event
\* order.
C33_CandidateOrderAndImmediateDedup ==
    [][IsSome(ev') =>
        LET now == timestamp_ms(Get(ev'))
            again == FireAll(sent',
                             [advice_last_ms     |-> eng'.advice_last_ms,
                              pull_advice_count  |-> eng'.pull_advice_count,
                              pull_gcd_gap_count |-> eng'.pull_gcd_gap_count,
                              current_pull_id    |-> eng'.current_pull_id,
                              db |-> <<>>, sent |-> <<>>, suppressed |-> <<>>],
                             now)
        IN  /\ InRuleOrder(sent')
            /\ InRuleOrder(suppressed')
            /\ \A i \in 1..Len(sent'), j \in 1..Len(sent') :
                  i # j => sent'[i].key # sent'[j].key
            /\ \A i \in 1..Len(sent') :
                  /\ Has(eng'.advice_last_ms, sent'[i].key)
                  /\ eng'.advice_last_ms[sent'[i].key] = now
                  /\ sent'[i].timestamp_ms = now
            /\ again.sent = <<>>
            /\ again.suppressed = sent']_vars

\* one cast fired two items: the gcd gap before the cooldown drift
C33_Witness ==
    /\ Len(sent) = 2
    /\ sent[1].key[1] = "gcd_gap"
    /\ sent[2].key[1] = "cooldown_drift"
    /\ eng.pull_advice_count = 2

IsInterruptMiss(a) == a.key[1] = "interrupt_miss"

\* C34: the learned-interruptible set starts empty and gains a spell X only
\* in the step of a SpellInterrupted of X by the coached player; an
\* interrupt_miss_X is delivered only in the step of a SpellCastSuccess of X
\* by a Creature- or Vehicle- source that is not the coached player, with a
\* pull open, X having been learned before that step.
C34_InterruptMissOnlyForLearnedEnemyCasts ==
    /\ combat.interrupts.interruptible_spells = {}
    /\ [][/\ \A x \in combat'.interrupts.interruptible_spells
                        \ combat.interrupts.interruptible_spells :
                /\ IsSome(ev')
                /\ Get(ev').kind = "SpellInterrupted"
                /\ Get(ev').spell_id = x
                /\ IsPlayer(Get(ev').source_guid, combat.player_guid)
          /\ \A i \in 1..Len(sent') : IsInterruptMiss(sent'[i]) =>
                LET e == Get(ev')
                IN  /\ e.kind = "SpellCastSuccess"
                    /\ sent'[i].key = <<"interrupt_miss", e.spell_id>>
                    /\ IF StartsWithCreature(e.source_guid) THEN TRUE
                       ELSE StartsWithVehicle(e.source_guid)
                    /\ ~StartsWithPlayerDash(e.source_guid)
                    /\ ~IsPlayer(e.source_guid, combat'.player_guid)
                    /\ combat'.in_combat
                    /\ e.spell_id \in combat.interrupts.interruptible_spells]_vars

\* the mob's cast of the spell the coached player interrupted earlier went
\* through
C34_Witness ==
    /\ IsSome(ev) /\ Get(ev).kind = "SpellCastSuccess" /\ Get(ev).source_guid = CreatureM
    /\ Len(sent) = 1 /\ IsInterruptMiss(sent[1])
    /\ sent[1].key[2] \in combat.interrupts.interruptible_spells
    /\ combat.player_guid = Some(PlayerA)

CacheKey(name) == ToAsciiLowercase(extract_char_name(name))

C38_InferredGuidIsPlayer ==
    [][/\ (IsSome(ev') /\ combat'.player_guid # combat.player_guid
           /\ IsSome(combat'.player_guid)) =>
             StartsWithPlayerDash(Get(combat'.player_guid))
       /\ (~IsSome(ev') /\ eng'.focus_name # eng.focus_name
           /\ IsSome(combat'.player_guid)) =>
             StartsWithPlayerDash(Get(combat'.player_guid))]_vars

\* C37: advice is delivered only while a pull is open: an event after whose
\* state update in_combat is false delivers no advice.
C37_AdviceOnlyWhilePullOpen ==
    [][(IsSome(ev') /\ nSteps' = nSteps + 1 /\ ~combat'.in_combat) => sent' = <<>>]_vars

\* C36: pull numbering is consistent: the engine's pull_number is the number
\* of the open pull, or of the last closed one when none is open; InsertPull
\* and the debrief carry it; pull_history holds the closed pulls 1..n in
\* order, each with end_ms and outcome set.
C36_PullNumberingConsistent ==
    /\ eng.pull_number = Len(combat.pull_history) + (IF combat.in_combat THEN 1 ELSE 0)
    /\ IsSome(combat.current_pull) =>
         Get(combat.current_pull).pull_number = eng.pull_number
    /\ \A i \in 1..Len(combat.pull_history) :
         /\ combat.pull_history[i].pull_number = i
         /\ IsSome(combat.pull_history[i].end_ms)
         /\ IsSome(combat.pull_history[i].outcome)
    /\ \A i \in 1..Len(db_out) :
         db_out[i].cmd = "InsertPull" =>
           /\ db_out[i].pull_number = eng.pull_number
           /\ IsSome(combat.current_pull)
    /\ IsSome(debrief_out) =>
         /\ Len(combat.pull_history) > 0
         /\ Get(debrief_out).pull_number = eng.pull_number
         /\ Get(debrief_out).pull_number =
              combat.pull_history[Len(combat.pull_history)].pull_number

\* the second pull has just been opened: numbered 2 in the state and in InsertPull
C36_Witness ==
    /\ Len(combat.pull_history) = 1
    /\ IsSome(combat.current_pull)
    /\ Get(combat.current_pull).pull_number = 2
    /\ Len(db_out) > 0
    /\ db_out[1].cmd = "InsertPull"
    /\ db_out[1].pull_number = 2

\* C39: the debrief's counters are per pull: total_advice_fired is the number
\* of advice items delivered from the event that opened the pull to the event
\* that closed it, gcd_gap_count the number of those whose key is gcd_gap;
\* the counters restart with the event that opens a pull.
C39_DebriefCountersArePerPull ==
    /\ [](IsSome(debrief_out) =>
            /\ Get(debrief_out).total_advice_fired = Cardinality(pull_firings)
            /\ Get(debrief_out).gcd_gap_count =
                 Cardinality({ f \in pull_firings : f.key[1] = "gcd_gap" }))
    /\ [][/\ (IsSome(debrief_out') /\ nSteps' = nSteps + 1) => sent' = <<>>
          /\ (~combat.in_combat /\ combat'.in_combat) =>
               /\ eng'.pull_advice_count = Len(sent')
               /\ eng'.pull_gcd_gap_count =
                    Cardinality({ i \in 1..Len(sent') : sent'[i].key[1] = "gcd_gap" })]_vars

\* a pull closed after two advice items, one of them a GCD gap
C39_Witness ==
    /\ IsSome(debrief_out)
    /\ Get(debrief_out).total_advice_fired = 2
    /\ Get(debrief_out).gcd_gap_count = 1
    /\ Cardinality(pull_firings) = 2

Processed(n) == \E i \in 1..Len(processed) : processed[i] = n

InQueue(c, n) == \E i \in 1..Len(chan[c].q) : chan[c].q[i] = n

\* C40: the pipeline does not deadlock: while the fan-out and the store
\* writer keep consuming, every line sent that parses to an event is
\* eventually processed by the engine, the advice of every processed event
\* that fires is put on the advice queue, and every advice on that queue is
\* eventually received by the fan-out.
C40_PipelineNeverDeadlocks ==
    /\ \A n \in 1..MaxLines :
          (Len(lines_sent) >= n /\ lines_sent[n].parses) ~> Processed(n)
    /\ \A n \in 1..MaxLines : InQueue("advice", n) ~> ~InQueue("advice", n)
    /\ [][\A n \in 1..MaxLines :
            /\ (Processed(n)' /\ ~Processed(n) /\ lines_sent[n].fires) =>
                  InQueue("advice", n)'
            /\ (InQueue("advice", n) /\ ~InQueue("advice", n)') =>
                  ring_hist' = Append(ring_hist, n)]_vars

\* the engine has an event to handle that fires while the advice queue and
\* the store writer's queue are both full
C40_Witness ==
    /\ Full(chan, "advice")
    /\ Full(chan, "db")
    /\ chan["event"].q # <<>>
    /\ lines_sent[Head(chan["event"].q)].fires
    /\ task["engine"] = "running"

====
